---- MODULE Spec2Model ----
(***************************************************************************)
(* RunAssistAI: the run-session lifecycle of runtrack/services.py on top   *)
(* of the SQLite repository runtrack/repository.py.                        *)
(*                                                                         *)
(* Representation choices:                                                 *)
(*  - an Optional[T] value is a sequence: <<>> is None/NULL, <<v>> is v;   *)
(*  - sessions is the sessions table in insertion order; a session's id    *)
(*    (uuid4 in the code) is its index;                                    *)
(*  - instants are whole seconds on one UTC clock, now;                    *)
(*  - distances are whole units of distance;                               *)
(*  - total_calories holds 3600 x the stored REAL, so that                 *)
(*    (duration / 3600.0) * calories_per_hour stays an exact integer;      *)
(*  - the free-text note and a metric's start_time/end_time are stored     *)
(*    and never read by the operations modelled here; they are left out;   *)
(*    the activity id a Strava import writes into the note is kept in      *)
(*    strava_notes;                                                        *)
(*  - users is the users table as a set of rows, links the                 *)
(*    coach_runner_links table in insertion order;                         *)
(*  - a start time sent as text is a sequence of one-character strings;    *)
(*  - session and runner are a runnerSession and a Runner of Main.py,      *)
(*    whose durations are whole seconds; the pair record_metric returns    *)
(*    is a record of its two components.                                   *)
(*                                                                         *)
(* Specifications:                                                         *)
(*  - Spec: every user's session lifecycle, calls that do not overlap;     *)
(*  - SpecTotals: one user's measurements, totals and finish, with the     *)
(*    clock running;                                                       *)
(*  - SpecConc: start_run calls of two request threads, interleaved at     *)
(*    their store accesses;                                                *)
(*  - SpecStopConc: the same for stop_run calls;                           *)
(*  - SpecEnergy: one user's sessions finished in each way while the rate  *)
(*    setting changes;                                                     *)
(*  - SpecPause: pause_run and resume_run while the clock runs;            *)
(*  - SpecPlanner: the deterministic weekly planner of services.py on any  *)
(*    list of windows;                                                     *)
(*  - SpecCalendar: previews applied to the daily_running_plan table;      *)
(*  - SpecPreview: build_test_weekly_ai_plan over the outcomes of the      *)
(*    external generation call;                                            *)
(*  - SpecApplyConc: one apply call, a store access at a time, while       *)
(*    calendar reads come in;                                              *)
(*  - SpecApplyPosted: templates posted to the apply route;                *)
(*  - SpecMonth: month views of the calendar;                              *)
(*  - SpecStats: the time-of-day distribution over any store of finished   *)
(*    sessions;                                                            *)
(*  - SpecDashboard: the dashboard read during sessions' lifecycle;        *)
(*  - SpecAccounts: create_user and resolve_or_create_user on an empty     *)
(*    users table;                                                         *)
(*  - SpecCoaching: runners bound to coaches and the coaches' lists;       *)
(*  - SpecDayPlans: day plans created with start times sent as text,       *)
(*    deleted and listed;                                                  *)
(*  - SpecSession: a runnerSession of Main.py;                             *)
(*  - SpecRunner: a Runner of Main.py and its runs;                        *)
(*  - SpecMetricConc: add_metric calls of two request threads,             *)
(*    interleaved at their store accesses, and stop_run;                   *)
(*  - SpecStrava: strava_sync_runner calls of two request threads,         *)
(*    interleaved at their store accesses.                                 *)
(***************************************************************************)
EXTENDS Integers, Sequences, FiniteSets, Bags, TLC

MaxSessions == 2
MaxMetrics == 2
MaxTime == 1

None == <<>>
Some(v) == <<v>>

Max(a, b) == IF a >= b THEN a ELSE b

\* users table: two registered users, and one id that has no row
Registered == {"u1", "u2"}
UserIds == Registered \cup {"u0"}
Procs == {"p1", "p2"}

DefaultCaloriesPerHour == 600

\* inputs the callers may send
MetricInputs == {<<5, 300>>, <<3, 600>>, <<2, 0>>}
RateInputs == {0, 900}
StopInputs == {<<None, None>>, <<Some(7), Some(1800)>>, <<None, Some(-5)>>}
\* the one measurement and the one stop request of the lifecycle specification
LifecycleMetricInputs == {<<5, 300>>}
LifecycleStopInputs == {<<None, None>>}
ImportInputs == {[dur |-> 1200, dist |-> 4, cal |-> None],
                 [dur |-> 1200, dist |-> 4, cal |-> Some(3600 * 250)]}

VARIABLES sessions, metrics, settings, now, last, pc, loc,
          weekly_slots, fitness_level, weekly_template, plans, cleared_dates,
          observed,
          users, links, runner, session, strava_imports, strava_notes

\* what a planner request carries and answers, and the daily_running_plan table
planner_vars ==
    <<weekly_slots, fitness_level, weekly_template, plans, cleared_dates, observed>>

\* the users table and the coach_runner_links table
account_vars == <<users, links>>

\* the objects of the in-memory model of Main.py: a Runner and a
\* runnerSession of its own
memory_vars == <<runner, session>>

\* the strava_activity_imports table and the note column of the sessions a
\* sync created
strava_vars == <<strava_imports, strava_notes>>

\* what the session and planner operations never touch
other_vars == <<account_vars, memory_vars, strava_vars>>

vars == <<sessions, metrics, settings, now, last, pc, loc, planner_vars, other_vars>>

RECURSIVE SumDistance_AllSessions(_, _)
\* faulty variant: the SUM forgets WHERE session_id = ?
SumDistance_AllSessions(mets, sid) ==
    IF mets = <<>> THEN 0
    ELSE Head(mets).distance + SumDistance_AllSessions(Tail(mets), sid)

RECURSIVE SumDistance(_, _)
\* SELECT SUM(distance) FROM metrics WHERE session_id = sid
SumDistance(mets, sid) ==
    IF mets = <<>> THEN 0
    ELSE (IF Head(mets).session_id = sid THEN Head(mets).distance ELSE 0)
         + SumDistance(Tail(mets), sid)

RECURSIVE SumDuration(_, _)
\* SELECT SUM(duration_seconds) FROM metrics WHERE session_id = sid
SumDuration(mets, sid) ==
    IF mets = <<>> THEN 0
    ELSE (IF Head(mets).session_id = sid THEN Head(mets).duration_seconds ELSE 0)
         + SumDuration(Tail(mets), sid)

----
\* Repo.get_or_create_user_settings: the value read, and the table after it
SettingsValue(st, u) ==
    IF st[u] = None THEN DefaultCaloriesPerHour ELSE st[u][1]

SettingsAfterGet(st, u) ==
    IF st[u] = None THEN [st EXCEPT ![u] = Some(DefaultCaloriesPerHour)] ELSE st

\* Repo.update_user_calories_per_hour
update_user_calories_per_hour(st, u, value) == [st EXCEPT ![u] = Some(value)]

\* ids of the user's rows with ended_at IS NULL
ActiveIds(sess, u) ==
    {i \in DOMAIN sess : sess[i].user_id = u /\ sess[i].ended_at = None}

\* faulty variant: the lookup forgets WHERE user_id = ?
get_active_session_AnyUser(sess, u) ==
    {i \in DOMAIN sess : sess[i].ended_at = None}

\* faulty variant: the lookup forgets ended_at IS NULL
get_active_session_IncludesEnded(sess, u) ==
    {i \in DOMAIN sess :
        /\ sess[i].user_id = u
        /\ \A j \in DOMAIN sess :
             sess[j].user_id = u => sess[j].started_at <= sess[i].started_at}

\* Repo.get_active_session: ORDER BY started_at DESC LIMIT 1; rows that tie
\* on started_at come back in an order SQLite does not fix
get_active_session(sess, u) ==
    {i \in ActiveIds(sess, u) :
        \A j \in ActiveIds(sess, u) : sess[j].started_at <= sess[i].started_at}

\* faulty variant: the new row is inserted with ended_at = now instead of NULL
NewSessionRow_Ended(u, t, cph) ==
    [user_id |-> u, started_at |-> t, ended_at |-> Some(t),
     total_distance_km |-> 0, total_duration_seconds |-> 0,
     total_calories |-> 0, calories_per_hour |-> cph]

NewSessionRow(u, t, cph) ==
    [user_id |-> u, started_at |-> t, ended_at |-> None,
     total_distance_km |-> 0, total_duration_seconds |-> 0,
     total_calories |-> 0, calories_per_hour |-> cph]

\* faulty variant: the INSERT is not guarded by the lookup of an open session
CanCreateActive_Unguarded(sess, u) == TRUE

\* the guard of Repo.create_active_session
CanCreateActive(sess, u) == get_active_session(sess, u) = {}

\* the INSERT of Repo.create_active_session
create_active_session(sess, u, t, cph) == Append(sess, NewSessionRow(u, t, cph))

\* faulty variant: energy is recomputed from the user's current setting
_recalc_session_totals_CurrentRate(sess, mets, sid) ==
    LET total_dur == SumDuration(mets, sid)
        cph == SettingsValue(settings, sess[sid].user_id)
    IN  [sess EXCEPT ![sid] = [@ EXCEPT !.total_distance_km = SumDistance(mets, sid),
                                        !.total_duration_seconds = total_dur,
                                        !.total_calories = total_dur * cph]]

\* Repo._recalc_session_totals
_recalc_session_totals(sess, mets, sid) ==
    LET total_dist == SumDistance(mets, sid)
        total_dur == SumDuration(mets, sid)
        cph == sess[sid].calories_per_hour
    IN  [sess EXCEPT ![sid] = [@ EXCEPT !.total_distance_km = total_dist,
                                        !.total_duration_seconds = total_dur,
                                        !.total_calories = total_dur * cph]]

\* the INSERT of Repo.add_metric
InsertMetric(mets, sid, d, t) ==
    Append(mets, [session_id |-> sid, distance |-> d, duration_seconds |-> t])

\* faulty variant: the accumulated duration wins over the caller's elapsed_seconds
ResolveDuration_SumFirst(row, elapsed_seconds, t) ==
    IF row.total_duration_seconds # 0 THEN row.total_duration_seconds
    ELSE IF elapsed_seconds # None THEN Max(0, elapsed_seconds[1])
    ELSE Max(0, t - row.started_at)

\* faulty variant: without elapsed_seconds the clock is always used
ResolveDuration_ClockAlways(row, elapsed_seconds, t) ==
    IF elapsed_seconds # None THEN Max(0, elapsed_seconds[1])
    ELSE Max(0, t - row.started_at)

\* the duration Repo.finish_session resolves
ResolveDuration(row, elapsed_seconds, t) ==
    IF elapsed_seconds # None THEN Max(0, elapsed_seconds[1])
    ELSE IF row.total_duration_seconds = 0 THEN Max(0, t - row.started_at)
    ELSE row.total_duration_seconds

\* faulty variant: energy is computed from the user's current setting
finish_session_CurrentRate(sess, sid, total_distance_km, elapsed_seconds, t) ==
    LET row == sess[sid]
        dur == ResolveDuration(row, elapsed_seconds, t)
        new_dist == IF total_distance_km # None THEN total_distance_km[1]
                    ELSE row.total_distance_km
    IN  [sess EXCEPT ![sid] = [@ EXCEPT !.total_distance_km = new_dist,
                                        !.total_duration_seconds = dur,
                                        !.total_calories =
                                            dur * SettingsValue(settings, row.user_id),
                                        !.ended_at = Some(t)]]

\* faulty variant: the caller's total_distance_km is dropped
finish_session_KeepsDistance(sess, sid, total_distance_km, elapsed_seconds, t) ==
    LET row == sess[sid]
        dur == ResolveDuration(row, elapsed_seconds, t)
    IN  [sess EXCEPT ![sid] = [@ EXCEPT !.total_duration_seconds = dur,
                                        !.total_calories = dur * row.calories_per_hour,
                                        !.ended_at = Some(t)]]

\* faulty variant: the UPDATE leaves ended_at as it was
finish_session_LeavesOpen(sess, sid, total_distance_km, elapsed_seconds, t) ==
    LET row == sess[sid]
        dur == ResolveDuration(row, elapsed_seconds, t)
        new_dist == IF total_distance_km # None THEN total_distance_km[1]
                    ELSE row.total_distance_km
    IN  [sess EXCEPT ![sid] = [@ EXCEPT !.total_distance_km = new_dist,
                                        !.total_duration_seconds = dur,
                                        !.total_calories = dur * row.calories_per_hour]]

\* Repo.finish_session
finish_session(sess, sid, total_distance_km, elapsed_seconds, t) ==
    LET row == sess[sid]
        dur == ResolveDuration(row, elapsed_seconds, t)
        new_dist == IF total_distance_km # None THEN total_distance_km[1]
                    ELSE row.total_distance_km
    IN  [sess EXCEPT ![sid] = [@ EXCEPT !.total_distance_km = new_dist,
                                        !.total_duration_seconds = dur,
                                        !.total_calories = dur * row.calories_per_hour,
                                        !.ended_at = Some(t)]]

\* the row Repo.create_session_from_import inserts
ImportedRow(u, started, dur, dist, cph, cal) ==
    [user_id |-> u, started_at |-> started,
     ended_at |-> Some(started + Max(0, dur)),
     total_distance_km |-> dist, total_duration_seconds |-> dur,
     total_calories |-> IF cal # None THEN cal[1] ELSE Max(0, dur) * cph,
     calories_per_hour |-> cph]

----
\* a request thread between calls holds nothing
NoLocals == [user |-> "u0", cph |-> 0]

\* a runnerSession as runnerSession.__init__ leaves it
NewRunnerSession(sessionId) ==
    [sessionId |-> sessionId, startTime |-> None, endTime |-> None, totalDistance |-> 0,
     totalDuration |-> 0, metrics |-> <<>>]

\* the registered users are runners with codes of their own; no link, no
\* import; a Runner with no session, and a runnerSession S1 not yet begun
InitOther ==
    /\ users = {[id |-> "u1", username |-> "u1", role |-> "runner", runner_code |-> Some(1)],
                [id |-> "u2", username |-> "u2", role |-> "runner", runner_code |-> Some(2)]}
    /\ links = <<>>
    /\ runner = [currentSession |-> None, sessionHistory |-> <<>>]
    /\ session = NewRunnerSession("S1")
    /\ strava_imports = {}
    /\ strava_notes = <<>>

Init ==
    /\ sessions = <<>>
    /\ metrics = <<>>
    /\ settings = [u \in Registered |-> None]
    /\ now = 0
    /\ last = "none"
    /\ pc = [p \in Procs |-> "idle"]
    /\ loc = [p \in Procs |-> NoLocals]
    /\ weekly_slots = <<>>
    /\ fitness_level = None
    /\ weekly_template = <<>>
    /\ plans = EmptyBag
    /\ cleared_dates = <<>>
    /\ observed = <<>>
    /\ InitOther

\* services.start_run
start_run(u) ==
    /\ UNCHANGED <<metrics, now, pc, loc, planner_vars, other_vars>>
    /\ IF u \notin Registered
       THEN /\ last' = "user_not_found"
            /\ UNCHANGED <<sessions, settings>>
       ELSE /\ settings' = SettingsAfterGet(settings, u)
            /\ IF ~CanCreateActive(sessions, u)
               THEN /\ last' = "conflict"
                    /\ UNCHANGED sessions
               ELSE /\ Len(sessions) < MaxSessions
                    /\ sessions' = create_active_session(sessions, u, now,
                                                         SettingsValue(settings, u))
                    /\ last' = "ok"

\* services.add_metric
add_metric(u, d, t) ==
    /\ UNCHANGED <<settings, now, pc, loc, planner_vars, other_vars>>
    /\ IF get_active_session(sessions, u) = {}
       THEN /\ last' = "not_found"
            /\ UNCHANGED <<sessions, metrics>>
       ELSE /\ Len(metrics) < MaxMetrics
            /\ \E sid \in get_active_session(sessions, u) :
                 /\ metrics' = InsertMetric(metrics, sid, d, t)
                 /\ sessions' = _recalc_session_totals(sessions, metrics', sid)
                 /\ last' = "ok"

\* services.stop_run
stop_run(u, total_distance_km, elapsed_seconds) ==
    /\ UNCHANGED <<metrics, settings, now, pc, loc, planner_vars, other_vars>>
    /\ IF get_active_session(sessions, u) = {}
       THEN /\ last' = "not_found"
            /\ UNCHANGED sessions
       ELSE \E sid \in get_active_session(sessions, u) :
                 /\ sessions' = finish_session(sessions, sid, total_distance_km,
                                               elapsed_seconds, now)
                 /\ last' = "ok"

\* faulty variant: resuming restarts the session's clock
Probe_RestartsClock(is_paused, u) ==
    /\ UNCHANGED <<metrics, settings, now, pc, loc, planner_vars, other_vars>>
    /\ IF u \notin Registered
       THEN last' = "user_not_found" /\ UNCHANGED sessions
       ELSE IF get_active_session(sessions, u) = {}
       THEN last' = "not_found" /\ UNCHANGED sessions
       ELSE /\ last' = IF is_paused THEN "paused" ELSE "resumed"
            /\ \E sid \in get_active_session(sessions, u) :
                 sessions' = IF is_paused THEN sessions
                             ELSE [sessions EXCEPT ![sid].started_at = now]

\* services.pause_run and services.resume_run: the checks they share, and
\* the is_paused flag of the answer
Probe(is_paused, u) ==
    /\ UNCHANGED <<sessions, metrics, settings, now, pc, loc, planner_vars, other_vars>>
    /\ IF u \notin Registered
       THEN last' = "user_not_found"
       ELSE IF get_active_session(sessions, u) = {}
       THEN last' = "not_found"
       ELSE last' = IF is_paused THEN "paused" ELSE "resumed"

pause_run(u) == Probe(TRUE, u)

resume_run(u) == Probe(FALSE, u)

\* services.set_calories_per_hour
set_calories_per_hour(u, value) ==
    /\ UNCHANGED <<sessions, metrics, now, pc, loc, planner_vars, other_vars>>
    /\ IF value <= 0
       THEN /\ last' = "validation"
            /\ UNCHANGED settings
       ELSE /\ settings' = update_user_calories_per_hour(settings, u, value)
            /\ last' = "ok"

\* Repo.create_session_from_import, as services.strava_sync_runner calls it
create_session_from_import(u, started, in) ==
    /\ Len(sessions) < MaxSessions
    /\ Len(metrics) < MaxMetrics
    /\ UNCHANGED <<now, pc, loc, planner_vars, other_vars>>
    /\ settings' = SettingsAfterGet(settings, u)
    /\ LET sid == Len(sessions) + 1
           inserted == Append(sessions,
                          ImportedRow(u, started, in.dur, in.dist,
                                      SettingsValue(settings, u), in.cal))
       IN  /\ metrics' = InsertMetric(metrics, sid, in.dist, in.dur)
           /\ sessions' = _recalc_session_totals(inserted, metrics', sid)
           /\ last' = "ok"

\* the clock advances
Tick ==
    /\ now < MaxTime
    /\ now' = now + 1
    /\ UNCHANGED <<sessions, metrics, settings, last, pc, loc, planner_vars, other_vars>>

StartRun(U) == \E u \in U : start_run(u)
AddMetric(U, M) == \E u \in U, m \in M : add_metric(u, m[1], m[2])
StopRun(U, S) == \E u \in U, in \in S : stop_run(u, in[1], in[2])
PauseRun(U) == \E u \in U : pause_run(u)
ResumeRun(U) == \E u \in U : resume_run(u)
SetCaloriesPerHour(U, R) == \E u \in U, v \in R : set_calories_per_hour(u, v)
ImportSession(U, I) == \E u \in U, in \in I : create_session_from_import(u, 0, in)

\* the session lifecycle of every user, one call at a time, at one instant
Next ==
    \/ StartRun(UserIds)
    \/ AddMetric(UserIds, LifecycleMetricInputs)
    \/ StopRun(UserIds, LifecycleStopInputs)
    \/ PauseRun(UserIds)
    \/ ResumeRun(UserIds)
    \/ SetCaloriesPerHour(Registered, RateInputs)
    \/ ImportSession(Registered, ImportInputs)

Spec == Init /\ [][Next]_vars

\* one user's measurements and totals, one call at a time
NextTotals ==
    \/ StartRun({"u1"})
    \/ AddMetric({"u1"}, MetricInputs)
    \/ StopRun({"u1"}, StopInputs)
    \/ Tick

SpecTotals == Init /\ [][NextTotals]_vars

\* one user's sessions finished in each way, while the rate setting changes
NextEnergy ==
    \/ StartRun({"u1"})
    \/ AddMetric({"u1"}, LifecycleMetricInputs)
    \/ StopRun({"u1"}, StopInputs)
    \/ SetCaloriesPerHour({"u1"}, RateInputs)
    \/ Tick

SpecEnergy == Init /\ [][NextEnergy]_vars

\* one user's session paused and resumed while the clock runs
NextPause ==
    \/ StartRun({"u1"})
    \/ AddMetric({"u1"}, LifecycleMetricInputs)
    \/ PauseRun({"u1", "u0"})
    \/ ResumeRun({"u1", "u0"})
    \/ StopRun({"u1"}, LifecycleStopInputs)
    \/ Tick

SpecPause == Init /\ [][NextPause]_vars

----
\* services.start_run on a request thread p, one store access at a time:
\* the user and settings lookups,
sr_begin(p, u) ==
    /\ pc[p] = "idle"
    /\ UNCHANGED <<sessions, metrics, now, planner_vars, other_vars>>
    /\ IF u \notin Registered
       THEN /\ last' = "user_not_found"
            /\ UNCHANGED <<settings, pc, loc>>
       ELSE /\ settings' = SettingsAfterGet(settings, u)
            /\ loc' = [loc EXCEPT ![p] = [user |-> u,
                                          cph |-> SettingsValue(settings, u)]]
            /\ pc' = [pc EXCEPT ![p] = "check"]
            /\ UNCHANGED last

\* the SELECT of Repo.create_active_session,
sr_check(p) ==
    /\ pc[p] = "check"
    /\ UNCHANGED <<sessions, metrics, settings, now, planner_vars, other_vars>>
    /\ IF ~CanCreateActive(sessions, loc[p].user)
       THEN /\ last' = "conflict"
            /\ pc' = [pc EXCEPT ![p] = "idle"]
            /\ loc' = [loc EXCEPT ![p] = NoLocals]
       ELSE /\ pc' = [pc EXCEPT ![p] = "insert"]
            /\ UNCHANGED <<last, loc>>

\* and its INSERT and commit
sr_insert(p) ==
    /\ pc[p] = "insert"
    /\ Len(sessions) < MaxSessions
    /\ sessions' = create_active_session(sessions, loc[p].user, now, loc[p].cph)
    /\ last' = "ok"
    /\ pc' = [pc EXCEPT ![p] = "idle"]
    /\ loc' = [loc EXCEPT ![p] = NoLocals]
    /\ UNCHANGED <<metrics, settings, now, planner_vars, other_vars>>

SrBegin == \E p \in Procs, u \in UserIds : sr_begin(p, u)
SrCheck == \E p \in Procs : sr_check(p)
SrInsert == \E p \in Procs : sr_insert(p)

\* start_run calls that overlap, between stop_run calls that do not
NextConc ==
    \/ SrBegin
    \/ SrCheck
    \/ SrInsert
    \/ StopRun(Registered, LifecycleStopInputs)
    \/ Tick

SpecConc == Init /\ [][NextConc]_vars

----
\* services.stop_run on a request thread p, one store access at a time:
\* the lookup of the open session,
st_lookup(p, u, total_distance_km, elapsed_seconds) ==
    /\ pc[p] = "idle"
    /\ UNCHANGED <<sessions, metrics, settings, now, planner_vars, other_vars>>
    /\ IF get_active_session(sessions, u) = {}
       THEN /\ last' = "not_found"
            /\ UNCHANGED <<pc, loc>>
       ELSE /\ \E sid \in get_active_session(sessions, u) :
                 loc' = [loc EXCEPT ![p] = [user |-> u, sid |-> sid,
                                            total_distance_km |-> total_distance_km,
                                            elapsed_seconds |-> elapsed_seconds]]
            /\ pc' = [pc EXCEPT ![p] = "finish"]
            /\ UNCHANGED last

\* and Repo.finish_session on the id it found
st_finish(p) ==
    /\ pc[p] = "finish"
    /\ sessions' = finish_session(sessions, loc[p].sid, loc[p].total_distance_km,
                                  loc[p].elapsed_seconds, now)
    /\ last' = "ok"
    /\ pc' = [pc EXCEPT ![p] = "idle"]
    /\ loc' = [loc EXCEPT ![p] = NoLocals]
    /\ UNCHANGED <<metrics, settings, now, planner_vars, other_vars>>

StLookup(S) == \E p \in Procs, in \in S : st_lookup(p, "u1", in[1], in[2])
StFinish == \E p \in Procs : st_finish(p)

\* one user's stop_run calls that overlap, between calls that do not
NextStopConc ==
    \/ StartRun({"u1"})
    \/ AddMetric({"u1"}, LifecycleMetricInputs)
    \/ StLookup(LifecycleStopInputs)
    \/ StFinish
    \/ Tick

SpecStopConc == Init /\ [][NextStopConc]_vars

----
\* services._build_weekly_plan_stub, the deterministic weekly planner.
\* A clock time "HH:MM" is the pair <<HH, MM>>; a planned distance_km is held
\* in hundredths of a kilometre, the precision round(x, 2) keeps.
MaxSlots == 2

\* the windows callers send: 40, 31, 1, 0 and -30 minutes long, on two weekdays
SlotWeekdays == {0, 3}
SlotTimes == {<< <<7, 0>>, <<7, 40>> >>, << <<18, 0>>, <<18, 31>> >>,
              << <<7, 40>>, <<7, 41>> >>, << <<9, 0>>, <<9, 0>> >>,
              << <<10, 0>>, <<9, 30>> >>}
Windows ==
    {[weekday |-> w, start_time |-> b[1], end_time |-> b[2]] :
        w \in SlotWeekdays, b \in SlotTimes}
SlotLists == UNION {[1..n -> Windows] : n \in 0..MaxSlots}
LevelInputs == {None, Some("regular"), Some("Athlete"), Some("athlete"), Some("beginner")}

\* str.lower, on the levels callers send
lower(s) == IF s = "Athlete" THEN "athlete" ELSE s

_local_hhmm_to_minutes(hhmm) == hhmm[1] * 60 + hhmm[2]

_local_minutes_to_hhmm(total) ==
    LET t == total % (24 * 60) IN <<t \div 60, t % 60>>

\* faulty variant: the paces of regular and athlete are swapped
km_per_hour_Swapped(level) ==
    LET l == lower(IF level = None THEN "beginner" ELSE level[1])
    IN  IF l = "athlete" THEN 9 ELSE IF l = "regular" THEN 11 ELSE 7

\* the pace of the chosen fitness_level
km_per_hour(level) ==
    LET l == lower(IF level = None THEN "beginner" ELSE level[1])
    IN  IF l = "athlete" THEN 11 ELSE IF l = "regular" THEN 9 ELSE 7

\* round(run_dur * (km_per_hour / 60.0), 2), in hundredths: the exact value
\* is a whole number of thirds of a hundredth, so it is never a tie
run_distance(run_dur, kmh) == (10 * run_dur * kmh + 3) \div 6

\* faulty variant: the remainder of the division goes to the cooldown
BlockActivities_RestInCooldown(block, kmh) ==
    LET start_min == _local_hhmm_to_minutes(block.start_time)
        end_min == _local_hhmm_to_minutes(block.end_time)
        total == end_min - start_min
        base == total \div 3
        rest == total - base * 3
        run_start == start_min + base
        stretch_start == run_start + base
    IN  IF total <= 0 THEN <<>>
        ELSE << [start_time |-> _local_minutes_to_hhmm(start_min),
                 duration_minutes |-> base, distance_km |-> 0,
                 activity |-> "Warm-up & mobility", description |-> "warmup_desc"],
                [start_time |-> _local_minutes_to_hhmm(run_start),
                 duration_minutes |-> base,
                 distance_km |-> run_distance(base, kmh),
                 activity |-> "Main run", description |-> "main_desc"],
                [start_time |-> _local_minutes_to_hhmm(stretch_start),
                 duration_minutes |-> base + rest, distance_km |-> 0,
                 activity |-> "Cooldown & stretching",
                 description |-> "cooldown_desc"] >>

\* the three activities of one window; a window of no length gives none
BlockActivities(block, kmh) ==
    LET start_min == _local_hhmm_to_minutes(block.start_time)
        end_min == _local_hhmm_to_minutes(block.end_time)
        total == end_min - start_min
        base == total \div 3
        rest == total - base * 3
        warmup_dur == base
        run_dur == base + rest
        stretch_dur == base
        warmup_start == start_min
        run_start == warmup_start + warmup_dur
        stretch_start == run_start + run_dur
    IN  IF total <= 0 THEN <<>>
        ELSE << [start_time |-> _local_minutes_to_hhmm(warmup_start),
                 duration_minutes |-> warmup_dur, distance_km |-> 0,
                 activity |-> "Warm-up & mobility", description |-> "warmup_desc"],
                [start_time |-> _local_minutes_to_hhmm(run_start),
                 duration_minutes |-> run_dur,
                 distance_km |-> run_distance(run_dur, kmh),
                 activity |-> "Main run", description |-> "main_desc"],
                [start_time |-> _local_minutes_to_hhmm(stretch_start),
                 duration_minutes |-> stretch_dur, distance_km |-> 0,
                 activity |-> "Cooldown & stretching",
                 description |-> "cooldown_desc"] >>

RECURSIVE DayActivities(_, _)
\* the activities of a weekday's windows, in the order the windows came
DayActivities(day_blocks, kmh) ==
    IF day_blocks = <<>> THEN <<>>
    ELSE BlockActivities(Head(day_blocks), kmh) \o DayActivities(Tail(day_blocks), kmh)

\* the windows of one weekday, in the order the caller sent them
DayBlocks(slots, weekday) == SelectSeq(slots, LAMBDA b : b.weekday = weekday)

_build_weekly_plan_stub(level, slots) ==
    [i \in 1..7 |->
        [weekday |-> i - 1,
         activities |-> DayActivities(DayBlocks(slots, i - 1), km_per_hour(level))]]

\* a preview request answered by the deterministic planner
plan_stub ==
    /\ weekly_template' = _build_weekly_plan_stub(fitness_level, weekly_slots)
    /\ UNCHANGED <<sessions, metrics, settings, now, last, pc, loc, other_vars>>
    /\ UNCHANGED <<weekly_slots, fitness_level, plans, cleared_dates, observed>>

\* a preview request with any of the windows and levels
InitPlanner ==
    /\ sessions = <<>>
    /\ metrics = <<>>
    /\ settings = [u \in Registered |-> None]
    /\ now = 0
    /\ last = "none"
    /\ pc = [p \in Procs |-> "idle"]
    /\ loc = [p \in Procs |-> NoLocals]
    /\ weekly_slots \in SlotLists
    /\ fitness_level \in LevelInputs
    /\ weekly_template = <<>>
    /\ plans = EmptyBag
    /\ cleared_dates = <<>>
    /\ observed = <<>>
    /\ InitOther

NextPlanner == plan_stub

SpecPlanner == InitPlanner /\ [][NextPlanner]_vars

----
\* The calendar: plans is the daily_running_plan table, a bag of rows (a row's
\* uuid and created_at are left out, so equal rows are copies in the bag).
\* A date is its day number; day 0 is a Monday, so date.weekday() is d % 7.
MaxPlans == 1

default_days_ahead == 30

\* the windows of the previews that get applied: none, one on Monday, one on
\* Thursday sent before one on Monday, and Monday's with an empty window
CalendarSlotLists ==
    LET monday == [weekday |-> 0, start_time |-> <<7, 0>>, end_time |-> <<7, 40>>]
        thursday == [weekday |-> 3, start_time |-> <<18, 0>>, end_time |-> <<18, 31>>]
        empty == [weekday |-> 1, start_time |-> <<9, 0>>, end_time |-> <<9, 0>>]
    IN  {<<>>, <<monday>>, <<thursday, monday>>, <<monday, empty>>}

\* apply requests: a week and a day from day 0, two days from day 2, the
\* default start, and a span that is not positive
ApplyInputs ==
    {[start_date |-> Some(0), days |-> Some(8)],
     [start_date |-> Some(2), days |-> Some(2)],
     [start_date |-> None, days |-> Some(3)],
     [start_date |-> Some(0), days |-> Some(-1)]}

\* entries made by hand: on a Tuesday, on a Thursday, and one with no duration
DayPlanInputs ==
    {[date |-> 1, start_time |-> <<6, 0>>, duration_minutes |-> 30,
      distance_km |-> 500, activity |-> "Easy run"],
     [date |-> 3, start_time |-> <<6, 0>>, duration_minutes |-> 30,
      distance_km |-> 500, activity |-> "Easy run"],
     [date |-> 1, start_time |-> <<6, 0>>, duration_minutes |-> 0,
      distance_km |-> 500, activity |-> "Easy run"]}
OtherDayPlanInputs ==
    {[date |-> 1, start_time |-> <<6, 0>>, duration_minutes |-> 30,
      distance_km |-> 500, activity |-> "Easy run"]}

\* date.weekday()
weekday_of(d) == d % 7

\* datetime.now(tz).date()
today_local(t) == t \div (24 * 3600)

\* faulty variant: the SELECT forgets WHERE user_id = ?
list_daily_plans_for_date_AnyUser(pl, u, d) ==
    LET rows == {r \in BagToSet(pl) : r.plan_date = d}
    IN  [r \in rows |-> pl[r]]

\* Repo.list_daily_plans_for_date: the user's rows of one date
list_daily_plans_for_date(pl, u, d) ==
    LET rows == {r \in BagToSet(pl) : r.user_id = u /\ r.plan_date = d}
    IN  [r \in rows |-> pl[r]]

\* the row Repo.create_daily_plan inserts
DailyPlanRow(u, d, start_time, duration_minutes, distance_km, activity, description) ==
    [user_id |-> u, plan_date |-> d, start_time_local |-> start_time,
     duration_minutes |-> duration_minutes, distance_km |-> distance_km,
     activity |-> activity, description |-> description]

\* Repo.delete_daily_plan on each of the rows of existing
DeletePlans(pl, existing) ==
    [r \in BagToSet(pl) \ BagToSet(existing) |-> pl[r]]

RECURSIVE CreatePlans(_, _, _, _)
\* Repo.create_daily_plan for each activity, one after the other
CreatePlans(pl, u, d, activities) ==
    IF activities = <<>> THEN pl
    ELSE LET act == Head(activities)
         IN  CreatePlans(pl (+) SetToBag({DailyPlanRow(u, d, act.start_time,
                                                       act.duration_minutes,
                                                       act.distance_km,
                                                       act.activity,
                                                       act.description)}),
                         u, d, Tail(activities))

RECURSIVE template_by_weekday(_, _)
\* the activities the template holds for a weekday: its last day of that
\* weekday, and none when it has no such day
template_by_weekday(template, wd) ==
    IF template = <<>> THEN <<>>
    ELSE LET day == template[Len(template)]
         IN  IF day.weekday = wd THEN day.activities
             ELSE template_by_weekday(SubSeq(template, 1, Len(template) - 1), wd)

\* faulty variant: a date that gets no activity keeps its old entries
ApplyDate_KeepsRestDays(st, u, template, d) ==
    LET activities == template_by_weekday(template, weekday_of(d))
        existing == list_daily_plans_for_date(st.plans, u, d)
    IN  IF activities = <<>> THEN st
        ELSE [plans |-> CreatePlans(DeletePlans(st.plans, existing), u, d, activities),
              cleared_dates |-> IF existing # EmptyBag
                                THEN Append(st.cleared_dates, d)
                                ELSE st.cleared_dates]

\* faulty variant: the old entries of a date are recorded but not deleted
ApplyDate_KeepsExisting(st, u, template, d) ==
    LET activities == template_by_weekday(template, weekday_of(d))
        existing == list_daily_plans_for_date(st.plans, u, d)
    IN  [plans |-> CreatePlans(st.plans, u, d, activities),
         cleared_dates |-> IF existing # EmptyBag
                           THEN Append(st.cleared_dates, d)
                           ELSE st.cleared_dates]

\* faulty variant: a date whose old entries were deleted is not recorded
ApplyDate_ForgetsCleared(st, u, template, d) ==
    LET activities == template_by_weekday(template, weekday_of(d))
        existing == list_daily_plans_for_date(st.plans, u, d)
    IN  [plans |-> CreatePlans(DeletePlans(st.plans, existing), u, d, activities),
         cleared_dates |-> st.cleared_dates]

\* one round of the loop of apply_test_weekly_ai_plan: the date d
ApplyDate(st, u, template, d) ==
    LET activities == template_by_weekday(template, weekday_of(d))
        existing == list_daily_plans_for_date(st.plans, u, d)
    IN  [plans |-> CreatePlans(DeletePlans(st.plans, existing), u, d, activities),
         cleared_dates |-> IF existing # EmptyBag
                           THEN Append(st.cleared_dates, d)
                           ELSE st.cleared_dates]

RECURSIVE ApplyDates(_, _, _, _, _)
\* the loop of apply_test_weekly_ai_plan from d up to end_date_excl
ApplyDates(st, u, template, d, end_date_excl) ==
    IF d >= end_date_excl THEN st
    ELSE ApplyDates(ApplyDate(st, u, template, d), u, template, d + 1, end_date_excl)

\* the span and the first date apply_test_weekly_ai_plan resolves
days_ahead(in) ==
    IF in.days = None \/ in.days[1] = 0 THEN default_days_ahead ELSE in.days[1]

start_date(in, t) ==
    IF in.start_date # None THEN in.start_date[1] ELSE today_local(t) + 1

\* services.apply_test_weekly_ai_plan
apply_test_weekly_ai_plan(u, template, in) ==
    /\ UNCHANGED <<sessions, metrics, settings, now, pc, loc, other_vars>>
    /\ UNCHANGED <<weekly_slots, fitness_level, weekly_template, observed>>
    /\ IF u \notin Registered
       THEN /\ last' = "user_not_found"
            /\ UNCHANGED <<plans, cleared_dates>>
       ELSE IF days_ahead(in) <= 0
       THEN /\ last' = "validation"
            /\ UNCHANGED <<plans, cleared_dates>>
       ELSE LET done == ApplyDates([plans |-> plans, cleared_dates |-> <<>>], u,
                                   template, start_date(in, now),
                                   start_date(in, now) + days_ahead(in))
            IN  /\ plans' = done.plans
                /\ cleared_dates' = done.cleared_dates
                /\ last' = "ok"

\* services.create_day_plan
create_day_plan(u, in) ==
    /\ UNCHANGED <<sessions, metrics, settings, now, pc, loc, other_vars>>
    /\ UNCHANGED <<weekly_slots, fitness_level, weekly_template, cleared_dates, observed>>
    /\ IF u \notin Registered
       THEN /\ last' = "user_not_found"
            /\ UNCHANGED plans
       ELSE IF \/ ~(0 <= in.start_time[1] /\ in.start_time[1] <= 23)
               \/ ~(0 <= in.start_time[2] /\ in.start_time[2] <= 59)
               \/ in.duration_minutes <= 0
               \/ in.distance_km < 0
       THEN /\ last' = "validation"
            /\ UNCHANGED plans
       ELSE /\ BagCardinality(list_daily_plans_for_date(plans, u, in.date)) < MaxPlans
            /\ plans' = plans (+) SetToBag({DailyPlanRow(u, in.date, in.start_time,
                                                        in.duration_minutes,
                                                        in.distance_km,
                                                        in.activity, None)})
            /\ last' = "ok"

\* the caller applies the preview it was given
ApplyPlan(U, I) ==
    \E u \in U, in \in I :
        weekly_template # <<>> /\ apply_test_weekly_ai_plan(u, weekly_template, in)
CreateDayPlan(U, I) == \E u \in U, in \in I : create_day_plan(u, in)

\* a preview of a few windows, about to be applied to a calendar
InitCalendar ==
    /\ sessions = <<>>
    /\ metrics = <<>>
    /\ settings = [u \in Registered |-> None]
    /\ now = 0
    /\ last = "none"
    /\ pc = [p \in Procs |-> "idle"]
    /\ loc = [p \in Procs |-> NoLocals]
    /\ weekly_slots \in CalendarSlotLists
    /\ fitness_level = Some("regular")
    /\ weekly_template = <<>>
    /\ plans = EmptyBag
    /\ cleared_dates = <<>>
    /\ observed = <<>>
    /\ InitOther

\* previews applied to a calendar that also holds entries made by hand
NextCalendar ==
    \/ plan_stub
    \/ ApplyPlan({"u1", "u0"}, ApplyInputs)
    \/ CreateDayPlan({"u1"}, DayPlanInputs)
    \/ CreateDayPlan({"u2", "u0"}, OtherDayPlanInputs)

SpecCalendar == InitCalendar /\ [][NextCalendar]_vars

----
\* services.build_test_weekly_ai_plan: the external generation path first,
\* the deterministic planner when that path raises.
\* What the external path can come back with: an error (no client, a timeout,
\* text that is no JSON object, a day that is no object), or a parsed object
\* whose weekly_template is missing or is a list of days.
ExternalActivity(start_time, duration_minutes) ==
    [start_time |-> start_time, duration_minutes |-> duration_minutes,
     distance_km |-> 150, activity |-> "Easy jog", description |-> "ext_desc"]

ExternalOutcomes ==
    {[kind |-> "error", weekly_template |-> None],
     [kind |-> "response", weekly_template |-> None],
     [kind |-> "response", weekly_template |->
        Some(<< [weekday |-> 0, activities |-> << ExternalActivity(<<7, 5>>, 10),
                                                  ExternalActivity(<<7, 20>>, 15) >>],
                [weekday |-> 9, activities |-> << ExternalActivity(<<7, 5>>, 10) >>] >>)],
     [kind |-> "response", weekly_template |->
        Some(<< [weekday |-> 0, activities |-> << ExternalActivity(<<7, 20>>, 15),
                                                  ExternalActivity(<<7, 5>>, 10) >>] >>)],
     [kind |-> "response", weekly_template |->
        Some(<< [weekday |-> 0, activities |-> << ExternalActivity(<<7, 5>>, 0) >>] >>)],
     [kind |-> "response", weekly_template |->
        Some(<< [weekday |-> 0, activities |-> << ExternalActivity(<<12, 0>>, 30) >>] >>)]}

\* the tail of _build_weekly_plan_via_chatgpt: obj.get("weekly_template", []),
\* then one day for each weekday 0..6, the last day of a weekday winning
normalized_template(obj) ==
    LET template == IF obj.weekly_template = None THEN <<>> ELSE obj.weekly_template[1]
    IN  [i \in 1..7 |->
            [weekday |-> i - 1, activities |-> template_by_weekday(template, i - 1)]]

\* faulty variant: an error of the external path reaches the caller
build_test_weekly_ai_plan_Surfaces(u, ext) ==
    /\ UNCHANGED <<sessions, metrics, settings, now, pc, loc, other_vars>>
    /\ UNCHANGED <<weekly_slots, fitness_level, plans, cleared_dates, observed>>
    /\ IF u \notin Registered
       THEN /\ last' = "user_not_found"
            /\ UNCHANGED weekly_template
       ELSE IF ext.kind = "error"
       THEN /\ last' = "upstream_error"
            /\ UNCHANGED weekly_template
       ELSE /\ last' = "ok"
            /\ weekly_template' = normalized_template(ext)

\* services.build_test_weekly_ai_plan
build_test_weekly_ai_plan(u, ext) ==
    /\ UNCHANGED <<sessions, metrics, settings, now, pc, loc, other_vars>>
    /\ UNCHANGED <<weekly_slots, fitness_level, plans, cleared_dates, observed>>
    /\ IF u \notin Registered
       THEN /\ last' = "user_not_found"
            /\ UNCHANGED weekly_template
       ELSE /\ last' = "ok"
            /\ weekly_template' =
                 IF ext.kind = "error"
                 THEN _build_weekly_plan_stub(fitness_level, weekly_slots)
                 ELSE normalized_template(ext)

BuildPlan(U, E) == \E u \in U, ext \in E : build_test_weekly_ai_plan(u, ext)

\* preview requests, whatever the external path does
NextPreview == BuildPlan(UserIds, ExternalOutcomes)

SpecPreview == InitPlanner /\ [][NextPreview]_vars

----
\* services.list_day_plans_for_date: a calendar read of one date; observed
\* holds what the latest calendar read answered
list_day_plans_for_date(u, d) ==
    /\ UNCHANGED <<sessions, metrics, settings, now, pc, loc, other_vars>>
    /\ UNCHANGED <<weekly_slots, fitness_level, weekly_template, plans, cleared_dates>>
    /\ IF u \notin Registered
       THEN /\ last' = "user_not_found"
            /\ UNCHANGED observed
       ELSE /\ last' = "ok"
            /\ observed' = [user_id |-> u, date |-> d,
                            plans |-> list_daily_plans_for_date(plans, u, d)]

\* services.apply_test_weekly_ai_plan on a request thread p, one store access
\* at a time; every delete and every insert commits on its own.
\* The checks and the resolved range; before keeps the table as the call
\* found it, to tell a date's old entries from its new ones.
ap_begin(p, u, template, in) ==
    /\ pc[p] = "idle"
    /\ UNCHANGED <<sessions, metrics, settings, now, planner_vars, other_vars>>
    /\ IF u \notin Registered
       THEN /\ last' = "user_not_found"
            /\ UNCHANGED <<pc, loc>>
       ELSE IF days_ahead(in) <= 0
       THEN /\ last' = "validation"
            /\ UNCHANGED <<pc, loc>>
       ELSE /\ loc' = [loc EXCEPT ![p] =
                         [user |-> u, template |-> template,
                          start_date |-> start_date(in, now),
                          d |-> start_date(in, now),
                          end_date_excl |-> start_date(in, now) + days_ahead(in),
                          existing |-> EmptyBag, todo |-> <<>>,
                          cleared_dates |-> <<>>, before |-> plans]]
            /\ pc' = [pc EXCEPT ![p] = "list"]
            /\ UNCHANGED last

\* where the loop goes once the rows left to delete are old and the
\* activities left to create are todo
ApplyPosition(l, old, todo) ==
    IF old # EmptyBag THEN [l EXCEPT !.existing = old, !.todo = todo]
    ELSE IF todo # <<>> THEN [l EXCEPT !.existing = EmptyBag, !.todo = todo]
    ELSE [l EXCEPT !.existing = EmptyBag, !.todo = <<>>, !.d = l.d + 1]

ApplyPc(old, todo) ==
    IF old # EmptyBag THEN "delete" ELSE IF todo # <<>> THEN "create" ELSE "list"

\* the loop test and, for the date d, the read of its existing rows; after
\* the last date, the return
ap_list(p) ==
    /\ pc[p] = "list"
    /\ UNCHANGED <<sessions, metrics, settings, now, other_vars>>
    /\ UNCHANGED <<weekly_slots, fitness_level, weekly_template, plans, observed>>
    /\ IF loc[p].d >= loc[p].end_date_excl
       THEN /\ cleared_dates' = loc[p].cleared_dates
            /\ last' = "ok"
            /\ pc' = [pc EXCEPT ![p] = "idle"]
            /\ loc' = [loc EXCEPT ![p] = NoLocals]
       ELSE LET existing == list_daily_plans_for_date(plans, loc[p].user, loc[p].d)
                activities == template_by_weekday(loc[p].template, weekday_of(loc[p].d))
                noted == IF existing # EmptyBag
                         THEN [loc[p] EXCEPT !.cleared_dates = Append(@, loc[p].d)]
                         ELSE loc[p]
            IN  /\ loc' = [loc EXCEPT ![p] = ApplyPosition(noted, existing, activities)]
                /\ pc' = [pc EXCEPT ![p] = ApplyPc(existing, activities)]
                /\ UNCHANGED <<last, cleared_dates>>

\* Repo.delete_daily_plan of one of the existing rows
ap_delete(p) ==
    /\ pc[p] = "delete"
    /\ UNCHANGED <<sessions, metrics, settings, now, last, other_vars>>
    /\ UNCHANGED <<weekly_slots, fitness_level, weekly_template, cleared_dates, observed>>
    /\ \E r \in BagToSet(loc[p].existing) :
         LET old == loc[p].existing (-) SetToBag({r})
         IN  /\ plans' = plans (-) SetToBag({r})
             /\ loc' = [loc EXCEPT ![p] = ApplyPosition(loc[p], old, loc[p].todo)]
             /\ pc' = [pc EXCEPT ![p] = ApplyPc(old, loc[p].todo)]

\* Repo.create_daily_plan of the next activity
ap_create(p) ==
    /\ pc[p] = "create"
    /\ UNCHANGED <<sessions, metrics, settings, now, last, other_vars>>
    /\ UNCHANGED <<weekly_slots, fitness_level, weekly_template, cleared_dates, observed>>
    /\ plans' = CreatePlans(plans, loc[p].user, loc[p].d, <<Head(loc[p].todo)>>)
    /\ loc' = [loc EXCEPT ![p] = ApplyPosition(loc[p], EmptyBag, Tail(loc[p].todo))]
    /\ pc' = [pc EXCEPT ![p] = ApplyPc(EmptyBag, Tail(loc[p].todo))]

\* an apply over days 2..3 on one request thread
ConcApplyInputs == {[start_date |-> Some(2), days |-> Some(2)]}
ReadDates == {1, 3}

ApBegin(U, I) ==
    \E u \in U, in \in I :
        weekly_template # <<>> /\ ap_begin("p1", u, weekly_template, in)
ApList == ap_list("p1")
ApDelete == ap_delete("p1")
ApCreate == ap_create("p1")
ReadDate(U, D) == \E u \in U, d \in D : list_day_plans_for_date(u, d)

\* an apply call in progress while calendar reads come in; the entries the
\* user made by hand are all made before the call, so that whatever a read
\* sees during the call is the call's own doing
CreateDayPlanBefore == pc["p1"] = "idle" /\ CreateDayPlan({"u1"}, DayPlanInputs)

NextApplyConc ==
    \/ plan_stub
    \/ CreateDayPlanBefore
    \/ ApBegin({"u1", "u0"}, ConcApplyInputs)
    \/ ApList
    \/ ApDelete
    \/ ApCreate
    \/ ReadDate({"u1", "u0"}, ReadDates)

SpecApplyConc == InitCalendar /\ [][NextApplyConc]_vars

----
\* Templates a caller posts to the apply route itself (api.AiPlanApplyIn):
\* every field is present and start_time is two digits, a colon and two
\* digits, which is all the route's model asks for.
PostedActivity(start_time, duration_minutes) ==
    [start_time |-> start_time, duration_minutes |-> duration_minutes,
     distance_km |-> 300, activity |-> "Tempo run", description |-> "posted_desc"]

PostedTemplates ==
    {<<[weekday |-> 3, activities |-> <<PostedActivity(<<7, 0>>, 30)>>]>>,
     <<[weekday |-> 3, activities |-> <<PostedActivity(<<7, 0>>, 30),
                                        PostedActivity(<<7, 30>>, 0)>>]>>,
     <<[weekday |-> 2, activities |-> <<PostedActivity(<<7, 0>>, -5)>>]>>,
     <<[weekday |-> 3, activities |-> <<PostedActivity(<<25, 99>>, 20)>>]>>}

PostedApplyInputs ==
    {[start_date |-> Some(2), days |-> Some(2)],
     [start_date |-> Some(1), days |-> Some(3)]}

ApplyPosted(U, T, I) ==
    \E u \in U, template \in T, in \in I : apply_test_weekly_ai_plan(u, template, in)

\* a calendar with entries made by hand, and templates posted over it
NextApplyPosted ==
    \/ CreateDayPlan({"u1"}, DayPlanInputs)
    \/ ApplyPosted({"u1", "u0"}, PostedTemplates, PostedApplyInputs)

SpecApplyPosted == InitCalendar /\ [][NextApplyPosted]_vars

----
\* The civil calendar behind datetime.date: day 0 is Monday 2024-01-01.
is_leap(year) ==
    /\ year % 4 = 0
    /\ (year % 100 # 0 \/ year % 400 = 0)

days_in_month(year, month) ==
    IF month = 2 THEN (IF is_leap(year) THEN 29 ELSE 28)
    ELSE IF month \in {4, 6, 9, 11} THEN 30
    ELSE 31

RECURSIVE days_before_month(_, _)
days_before_month(year, month) ==
    IF month <= 1 THEN 0
    ELSE days_before_month(year, month - 1) + days_in_month(year, month - 1)

RECURSIVE days_before_year(_)
days_before_year(year) ==
    IF year <= 2024 THEN 0
    ELSE days_before_year(year - 1) + (IF is_leap(year - 1) THEN 366 ELSE 365)

\* date(year, month, day) as a day number
date(year, month, day) ==
    days_before_year(year) + days_before_month(year, month) + (day - 1)

\* a faulty variant that stays in the same year after December
next_month_SameYear(year, month) ==
    IF month = 12 THEN date(year, 1, 1) ELSE date(year, month + 1, 1)

\* the first day of the month after (year, month)
next_month(year, month) ==
    IF month = 12 THEN date(year + 1, 1, 1) ELSE date(year, month + 1, 1)

\* Repo.list_daily_plans_for_month: the user's rows with
\* first <= plan_date < next
list_daily_plans_for_month(P, u, first, next) ==
    LET rows == {r \in BagToSet(P) :
                    r.user_id = u /\ first <= r.plan_date /\ r.plan_date < next}
    IN  [r \in rows |-> CopiesIn(r, P)]

\* what the calendar shows of a row
CalendarPlan(r) ==
    [start_time |-> r.start_time_local, duration_minutes |-> r.duration_minutes,
     distance_km |-> r.distance_km, activity |-> r.activity,
     description |-> r.description]

\* plans_by_date.get(date_str, []): the shown rows of one date, as a bag (the
\* order within a date is by start time and then by the random id)
plans_by_date(rows, d) ==
    LET of_date == {r \in BagToSet(rows) : r.plan_date = d}
    IN  [c \in {CalendarPlan(r) : r \in of_date} |->
            CopiesIn(CHOOSE r \in of_date : CalendarPlan(r) = c, rows)]

\* services.get_running_plan_calendar
get_running_plan_calendar(u, year, month) ==
    /\ UNCHANGED <<sessions, metrics, settings, now, pc, loc, other_vars>>
    /\ UNCHANGED <<weekly_slots, fitness_level, weekly_template, plans, cleared_dates>>
    /\ IF u \notin Registered
       THEN /\ last' = "user_not_found"
            /\ UNCHANGED observed
       ELSE IF month \notin 1..12
       THEN /\ last' = "validation"
            /\ UNCHANGED observed
       ELSE LET first_day == date(year, month, 1)
                rows == list_daily_plans_for_month(plans, u, first_day,
                                                   next_month(year, month))
                day(d) == [date |-> d, weekday |-> weekday_of(d),
                           is_today |-> (d = today_local(now)),
                           plans |-> plans_by_date(rows, d)]
            IN  /\ observed' = [user_id |-> u, year |-> year, month |-> month,
                                days |-> [i \in 1..(next_month(year, month) - first_day)
                                            |-> day(first_day + i - 1)]]
                /\ last' = "ok"

\* the months asked for: the one of day 0, a leap February, a December, a
\* plain February, and a month that does not exist
MonthInputs == {<<2024, 1>>, <<2024, 2>>, <<2024, 12>>, <<2025, 2>>, <<2024, 13>>}

\* instants the service may be started at: day 0, the last second of day 2,
\* and a day of the following month
ClockInputs == {0, 3 * 24 * 3600 - 1, 40 * 24 * 3600}

GetCalendar(U, M) == \E u \in U, ym \in M : get_running_plan_calendar(u, ym[1], ym[2])

InitMonth ==
    /\ sessions = <<>>
    /\ metrics = <<>>
    /\ settings = [u \in Registered |-> None]
    /\ now \in ClockInputs
    /\ last = "none"
    /\ pc = [p \in Procs |-> "idle"]
    /\ loc = [p \in Procs |-> NoLocals]
    /\ weekly_slots = <<>>
    /\ fitness_level = None
    /\ weekly_template = <<>>
    /\ plans = EmptyBag
    /\ cleared_dates = <<>>
    /\ observed = <<>>
    /\ InitOther

\* month views of a calendar that holds entries made by hand
NextMonth ==
    \/ CreateDayPlan({"u1"}, DayPlanInputs)
    \/ CreateDayPlan({"u2", "u0"}, OtherDayPlanInputs)
    \/ GetCalendar(UserIds, MonthInputs)

SpecMonth == InitMonth /\ [][NextMonth]_vars

----
\* The read-side rollups. A share is held in ten-thousandths, the unit
\* round(percentage, 4) leaves.
MaxStatSessions == 3

Slots == {"morning", "forenoon", "afternoon", "evening", "night"}

\* faulty variant: ten o'clock still counts as morning
_bucket_for_hour_LateMorning(hour) ==
    IF 5 <= hour /\ hour <= 10 THEN "morning"
    ELSE IF 10 <= hour /\ hour < 14 THEN "forenoon"
    ELSE IF 14 <= hour /\ hour < 18 THEN "afternoon"
    ELSE IF 18 <= hour /\ hour < 22 THEN "evening"
    ELSE "night"

_bucket_for_hour(hour) ==
    IF 5 <= hour /\ hour < 10 THEN "morning"
    ELSE IF 10 <= hour /\ hour < 14 THEN "forenoon"
    ELSE IF 14 <= hour /\ hour < 18 THEN "afternoon"
    ELSE IF 18 <= hour /\ hour < 22 THEN "evening"
    ELSE "night"

\* datetime.fromisoformat(started_at).hour
hour_of(t) == (t \div 3600) % 24

\* _since_iso_from_days
_since_iso_from_days(t, days) == t - days * 24 * 3600

\* Repo.stats_sessions_since: the ids of the user's rows with
\* started_at >= since
stats_sessions_since(sess, u, since) ==
    {i \in DOMAIN sess : sess[i].user_id = u /\ sess[i].started_at >= since}

\* SUM over the rows S of a column f
RECURSIVE SumOver(_, _)
SumOver(f, S) ==
    IF S = {} THEN 0
    ELSE LET x == CHOOSE y \in S : TRUE IN f[x] + SumOver(f, S \ {x})

\* round(n / d, 0) of Python, ties to the even neighbour
round_half_even(n, d) ==
    LET q == n \div d
        r == n % d
    IN  IF 2 * r < d THEN q
        ELSE IF 2 * r > d THEN q + 1
        ELSE IF q % 2 = 0 THEN q ELSE q + 1

\* round(percentage, 4), in ten-thousandths
percentage(count, total_sessions) ==
    IF total_sessions > 0 THEN round_half_even(10000 * count, total_sessions) ELSE 0

\* services.get_stats_time_of_day, its answer
time_of_day(sess, u, t, days) ==
    LET in_range == stats_sessions_since(sess, u, _since_iso_from_days(t, days))
        of_slot(slot) ==
            {i \in in_range : _bucket_for_hour(hour_of(sess[i].started_at)) = slot}
        count(slot) == Cardinality(of_slot(slot))
        total_sessions == Cardinality(in_range)
    IN  [range_days |-> days,
         time_of_day_distribution |->
            [slot \in Slots |->
                [sessions |-> count(slot),
                 distance_km |->
                    SumOver([i \in of_slot(slot) |-> sess[i].total_distance_km],
                            of_slot(slot)),
                 duration_seconds |->
                    SumOver([i \in of_slot(slot) |-> sess[i].total_duration_seconds],
                            of_slot(slot)),
                 percentage |-> percentage(count(slot), total_sessions)]],
         total_sessions |-> total_sessions]

get_stats_time_of_day(u, days) ==
    /\ UNCHANGED <<sessions, metrics, settings, now, pc, loc, other_vars>>
    /\ UNCHANGED <<weekly_slots, fitness_level, weekly_template, plans, cleared_dates>>
    /\ observed' = [user_id |-> u, time_of_day |-> time_of_day(sessions, u, now, days)]
    /\ last' = "ok"

\* finished sessions of day 2 started at 04:00, 05:00, 10:00, 14:00, 18:00
\* and 22:00, one of day 0 started at 09:00, and one of another user
StatRows ==
    {ImportedRow("u1", 2 * 24 * 3600 + h * 3600, 1200, 4, DefaultCaloriesPerHour, None) :
        h \in {4, 5, 10, 14, 18, 22}}
    \cup {ImportedRow("u1", 9 * 3600, 1200, 4, DefaultCaloriesPerHour, None),
          ImportedRow("u2", 2 * 24 * 3600 + 9 * 3600, 1200, 4, DefaultCaloriesPerHour, None)}

StatDays == {1, 7}

GetTimeOfDay(U, D) == \E u \in U, days \in D : get_stats_time_of_day(u, days)

\* a store of finished sessions at the start of day 3
InitStats ==
    /\ sessions \in UNION {[1..n -> StatRows] : n \in 0..MaxStatSessions}
    /\ metrics = <<>>
    /\ settings = [u \in Registered |-> None]
    /\ now = 3 * 24 * 3600
    /\ last = "none"
    /\ pc = [p \in Procs |-> "idle"]
    /\ loc = [p \in Procs |-> NoLocals]
    /\ weekly_slots = <<>>
    /\ fitness_level = None
    /\ weekly_template = <<>>
    /\ plans = EmptyBag
    /\ cleared_dates = <<>>
    /\ observed = <<>>
    /\ InitOther

NextStats == GetTimeOfDay(UserIds, StatDays)

SpecStats == InitStats /\ [][NextStats]_vars

----
\* Repo.stats_overview
stats_overview(sess, u, since) ==
    LET rows == {i \in DOMAIN sess : sess[i].user_id = u /\ sess[i].started_at >= since}
    IN  [total_sessions |-> Cardinality(rows),
         total_distance_km |-> SumOver([i \in rows |-> sess[i].total_distance_km], rows),
         total_duration_seconds |->
            SumOver([i \in rows |-> sess[i].total_duration_seconds], rows)]

\* Repo.stats_daily: one line for each date (the first ten characters of
\* started_at) that has a row
stats_daily(sess, u, since) ==
    LET rows == {i \in DOMAIN sess : sess[i].user_id = u /\ sess[i].started_at >= since}
        date_of(i) == sess[i].started_at \div (24 * 3600)
        of_date(d) == {i \in rows : date_of(i) = d}
    IN  [d \in {date_of(i) : i \in rows} |->
            [sessions |-> Cardinality(of_date(d)),
             distance_km |->
                SumOver([i \in of_date(d) |-> sess[i].total_distance_km], of_date(d)),
             duration_seconds |->
                SumOver([i \in of_date(d) |-> sess[i].total_duration_seconds], of_date(d))]]

\* services.get_stats_overview; estimated_calories is distance x 60
get_stats_overview(sess, u, t, days) ==
    LET overview == stats_overview(sess, u, _since_iso_from_days(t, days))
    IN  [total_sessions |-> overview.total_sessions,
         total_distance_km |-> overview.total_distance_km,
         total_duration_seconds |-> overview.total_duration_seconds,
         estimated_calories |-> overview.total_distance_km * 60,
         range_days |-> days]

\* services.get_stats_daily
get_stats_daily(sess, u, t, days) ==
    [range_days |-> days, daily |-> stats_daily(sess, u, _since_iso_from_days(t, days))]

\* services.get_stats_training_load: a week's load is 100 x its distance; the
\* ISO week of an instant is counted from the Monday that is day 0; the
\* average is held in tenths
get_stats_training_load(sess, u, t, weeks) ==
    LET rows == stats_sessions_since(sess, u, _since_iso_from_days(t, weeks * 7))
        week_of(i) == sess[i].started_at \div (7 * 24 * 3600)
        of_week(w) == {i \in rows : week_of(i) = w}
        keys == {week_of(i) : i \in rows}
        weekly == [w \in keys |->
                     SumOver([i \in of_week(w) |-> sess[i].total_distance_km * 100],
                             of_week(w))]
    IN  [range_weeks |-> weeks,
         weeks |-> weekly,
         current_week_load |->
            IF keys # {} THEN weekly[CHOOSE w \in keys : \A v \in keys : v <= w] ELSE 0,
         average_week_load |->
            IF keys # {}
            THEN round_half_even(10 * SumOver(weekly, keys), Cardinality(keys))
            ELSE 0]

\* services.get_dashboard
get_dashboard(u, days, weeks) ==
    /\ UNCHANGED <<sessions, metrics, settings, now, pc, loc, other_vars>>
    /\ UNCHANGED <<weekly_slots, fitness_level, weekly_template, plans, cleared_dates>>
    /\ observed' = [user_id |-> u,
                    overview |-> get_stats_overview(sessions, u, now, days),
                    daily |-> get_stats_daily(sessions, u, now, days),
                    time_of_day |-> time_of_day(sessions, u, now, days),
                    training_load |-> get_stats_training_load(sessions, u, now, weeks)]
    /\ last' = "ok"

DashboardInputs == {<<7, 1>>, <<0, 0>>}

GetDashboard(U, I) == \E u \in U, in \in I : get_dashboard(u, in[1], in[2])

\* the dashboard read while one user's sessions are started, measured and
\* stopped
NextDashboard ==
    \/ StartRun({"u1"})
    \/ AddMetric({"u1"}, LifecycleMetricInputs)
    \/ StopRun({"u1"}, LifecycleStopInputs)
    \/ GetDashboard({"u1", "u2"}, DashboardInputs)
    \/ Tick

SpecDashboard == Init /\ [][NextDashboard]_vars

----
\* Accounts: the users table and the coach_runner_links table. A user's id
\* (uuid4 in the code) is the number of its creation; links is the link
\* table in insertion order, a row being its coach_id and runner_id.
MaxRunnerCode == 10000

\* the values random.randint(1, 10000) is taken to return
CodeDraws == {1, 2, MaxRunnerCode}
Usernames == {"ann", "bob", "cat"}
RoleInputs == {"runner", "coach", "admin"}

get_user_by_username(U, username) == {u \in U : u.username = username}
get_user_by_id(U, id) == {u \in U : u.id = id}

\* Repo.get_user_by_runner_code
get_user_by_runner_code(U, code) ==
    {u \in U : u.runner_code = Some(code) /\ u.role = "runner"}

\* faulty variant: the code drawn is not looked up in the users table
_generate_unique_runner_code_Unchecked(U) == {Some(c) : c \in CodeDraws}

\* Repo._generate_unique_runner_code: the outcomes of up to fifty draws, a
\* code no user has, or None for the ValueError after fifty draws that were
\* all taken
_generate_unique_runner_code(U) ==
    LET taken == {c \in CodeDraws : \E u \in U : u.runner_code = Some(c)}
    IN  {Some(c) : c \in CodeDraws \ taken} \cup (IF taken # {} THEN {None} ELSE {})

\* the INSERT INTO users of create_user and resolve_or_create_user
InsertUser(U, username, role, runner_code) ==
    U \cup {[id |-> Cardinality(U) + 1, username |-> username, role |-> role,
             runner_code |-> runner_code]}

\* Repo.create_user
create_user(username, role) ==
    /\ UNCHANGED <<sessions, metrics, settings, now, pc, loc, planner_vars>>
    /\ UNCHANGED <<links, memory_vars, strava_vars>>
    /\ IF role \notin {"runner", "coach"}
       THEN /\ last' = "validation"
            /\ UNCHANGED users
       ELSE IF get_user_by_username(users, username) # {}
       THEN /\ last' = "conflict"
            /\ UNCHANGED users
       ELSE IF role = "runner"
       THEN \E code \in _generate_unique_runner_code(users) :
               IF code = None
               THEN /\ last' = "validation"
                    /\ UNCHANGED users
               ELSE /\ users' = InsertUser(users, username, role, code)
                    /\ last' = "ok"
       ELSE /\ users' = InsertUser(users, username, role, None)
            /\ last' = "ok"

\* Repo.resolve_or_create_user
resolve_or_create_user(username, role) ==
    /\ UNCHANGED <<sessions, metrics, settings, now, pc, loc, planner_vars>>
    /\ UNCHANGED <<links, memory_vars, strava_vars>>
    /\ IF get_user_by_username(users, username) # {}
       THEN /\ last' = "ok"
            /\ UNCHANGED users
       ELSE LET as == IF role \notin {"runner", "coach"} THEN "runner" ELSE role
            IN  IF as = "runner"
                THEN \E code \in _generate_unique_runner_code(users) :
                        IF code = None
                        THEN /\ last' = "validation"
                             /\ UNCHANGED users
                        ELSE /\ users' = InsertUser(users, username, as, code)
                             /\ last' = "ok"
                ELSE /\ users' = InsertUser(users, username, as, None)
                     /\ last' = "ok"

\* faulty variant: the link table has no UNIQUE(coach_id, runner_id)
bind_coach_to_runner_Duplicates(L, coach_id, runner_id) ==
    Append(L, [coach_id |-> coach_id, runner_id |-> runner_id])

\* Repo.bind_coach_to_runner: the INSERT, or nothing on the IntegrityError of
\* UNIQUE(coach_id, runner_id)
bind_coach_to_runner(L, coach_id, runner_id) ==
    IF \E i \in DOMAIN L : L[i].coach_id = coach_id /\ L[i].runner_id = runner_id
    THEN L
    ELSE Append(L, [coach_id |-> coach_id, runner_id |-> runner_id])

\* services.bind_runner_to_coach
bind_runner_to_coach(coach_id, runner_code) ==
    /\ UNCHANGED <<sessions, metrics, settings, now, pc, loc>>
    /\ UNCHANGED <<weekly_slots, fitness_level, weekly_template, plans, cleared_dates>>
    /\ UNCHANGED <<users, memory_vars, strava_vars>>
    /\ IF get_user_by_id(users, coach_id) = {}
       THEN /\ last' = "user_not_found"
            /\ UNCHANGED <<links, observed>>
       ELSE IF \E c \in get_user_by_id(users, coach_id) : c.role # "coach"
       THEN /\ last' = "validation"
            /\ UNCHANGED <<links, observed>>
       ELSE IF get_user_by_runner_code(users, runner_code) = {}
       THEN /\ last' = "not_found"
            /\ UNCHANGED <<links, observed>>
       ELSE \E r \in get_user_by_runner_code(users, runner_code) :
               /\ links' = bind_coach_to_runner(links, coach_id, r.id)
               /\ observed' = [coach_id |-> coach_id,
                               runner |-> [id |-> r.id, name |-> r.username,
                                           runner_code |-> r.runner_code]]
               /\ last' = "ok"

\* Repo.list_runners_for_coach: one row for every link of the coach, as a
\* bag (the rows come ordered by username)
list_runners_for_coach(U, L, coach_id) ==
    LET mine == {i \in DOMAIN L : L[i].coach_id = coach_id}
        row(i) == LET u == CHOOSE u \in U : u.id = L[i].runner_id
                  IN  [id |-> u.id, name |-> u.username, runner_code |-> u.runner_code]
    IN  [r \in {row(i) : i \in mine} |-> Cardinality({i \in mine : row(i) = r})]

\* services.list_coach_runners
list_coach_runners(coach_id) ==
    /\ UNCHANGED <<sessions, metrics, settings, now, pc, loc>>
    /\ UNCHANGED <<weekly_slots, fitness_level, weekly_template, plans, cleared_dates>>
    /\ UNCHANGED other_vars
    /\ IF get_user_by_id(users, coach_id) = {}
       THEN /\ last' = "user_not_found"
            /\ UNCHANGED observed
       ELSE IF \E c \in get_user_by_id(users, coach_id) : c.role # "coach"
       THEN /\ last' = "validation"
            /\ UNCHANGED observed
       ELSE /\ observed' = [coach_id |-> coach_id,
                            runners |-> list_runners_for_coach(users, links, coach_id)]
            /\ last' = "ok"

\* the ids a caller may name (0 is nobody's) and the codes it may give (5 is
\* nobody's)
AccountIds == 0..Cardinality(Usernames)
CodeInputs == CodeDraws \cup {5}

CreateUser(N, R) == \E username \in N, role \in R : create_user(username, role)
ResolveOrCreateUser(N, R) ==
    \E username \in N, role \in R : resolve_or_create_user(username, role)
BindRunner(I, C) == \E coach_id \in I, code \in C : bind_runner_to_coach(coach_id, code)
ListCoachRunners(I) == \E coach_id \in I : list_coach_runners(coach_id)

\* an empty users table
InitAccounts ==
    /\ sessions = <<>>
    /\ metrics = <<>>
    /\ settings = [u \in Registered |-> None]
    /\ now = 0
    /\ last = "none"
    /\ pc = [p \in Procs |-> "idle"]
    /\ loc = [p \in Procs |-> NoLocals]
    /\ weekly_slots = <<>>
    /\ fitness_level = None
    /\ weekly_template = <<>>
    /\ plans = EmptyBag
    /\ cleared_dates = <<>>
    /\ observed = <<>>
    /\ users = {}
    /\ links = <<>>
    /\ runner = [currentSession |-> None, sessionHistory |-> <<>>]
    /\ session = NewRunnerSession("S1")
    /\ strava_imports = {}
    /\ strava_notes = <<>>

\* users registered and resolved
NextAccounts ==
    \/ CreateUser(Usernames, RoleInputs)
    \/ ResolveOrCreateUser(Usernames, RoleInputs)

SpecAccounts == InitAccounts /\ [][NextAccounts]_vars

\* coaches binding the runners among the users registered
NextCoaching ==
    \/ CreateUser({"ann", "bob"}, {"runner", "coach"})
    \/ ResolveOrCreateUser({"cat"}, {"runner"})
    \/ BindRunner(AccountIds, CodeInputs)
    \/ ListCoachRunners(AccountIds)

SpecCoaching == InitAccounts /\ [][NextCoaching]_vars

----
\* Calendar entries made and deleted by hand, with the start time as the text
\* the caller gave (a sequence of characters) and every row's id (uuid4 in
\* the code, here a number no stored row has).
MaxDayPlans == 2

Chars == <<"0", "1", "2", "3", "4", "5", "6", "7", "8", "9", ":">>
ord(c) == CHOOSE i \in DOMAIN Chars : Chars[i] = c
IsDigit(c) == ord(c) <= 10

\* str.split(":"), the parts in order
RECURSIVE split(_)
split(text) ==
    IF \A i \in DOMAIN text : text[i] # ":" THEN <<text>>
    ELSE LET k == CHOOSE i \in DOMAIN text :
                     text[i] = ":" /\ \A j \in 1..(i - 1) : text[j] # ":"
         IN  <<SubSeq(text, 1, k - 1)>> \o split(SubSeq(text, k + 1, Len(text)))

\* int(part) of a part made of digits
RECURSIVE to_int(_)
to_int(part) ==
    IF part = <<>> THEN 0
    ELSE 10 * to_int(SubSeq(part, 1, Len(part) - 1)) + (ord(part[Len(part)]) - 1)

\* hh, mm = map(int, start_time.split(":")) and the range check of
\* create_day_plan: <<hh, mm>>, or None where the code raises ValueError
parse_start_time(text) ==
    LET parts == split(text)
    IN  IF Len(parts) # 2 THEN None
        ELSE IF \E k \in 1..2 :
                    parts[k] = <<>> \/ \E i \in DOMAIN parts[k] : ~IsDigit(parts[k][i])
        THEN None
        ELSE IF ~(0 <= to_int(parts[1]) /\ to_int(parts[1]) <= 23
                  /\ 0 <= to_int(parts[2]) /\ to_int(parts[2]) <= 59)
        THEN None
        ELSE Some(<<to_int(parts[1]), to_int(parts[2])>>)

\* the ids of the stored rows
PlanIdsOf(P) == {r.id : r \in BagToSet(P)}

\* services.create_day_plan, from the text of start_time on
create_day_plan_text(u, in) ==
    /\ UNCHANGED <<sessions, metrics, settings, now, pc, loc, other_vars>>
    /\ UNCHANGED <<weekly_slots, fitness_level, weekly_template, cleared_dates, observed>>
    /\ IF u \notin Registered
       THEN /\ last' = "user_not_found"
            /\ UNCHANGED plans
       ELSE IF \/ parse_start_time(in.start_time) = None
               \/ in.duration_minutes <= 0
               \/ in.distance_km < 0
       THEN /\ last' = "validation"
            /\ UNCHANGED plans
       ELSE \E id \in (1..MaxDayPlans) \ PlanIdsOf(plans) :
               /\ plans' = plans (+) SetToBag({
                     [id |-> id, user_id |-> u, plan_date |-> in.date,
                      start_time_local |-> in.start_time,
                      duration_minutes |-> in.duration_minutes,
                      distance_km |-> in.distance_km, activity |-> in.activity,
                      description |-> None]})
               /\ last' = "ok"

\* Repo.delete_daily_plan: DELETE ... WHERE id=? AND user_id=?
delete_daily_plan(P, u, plan_id) ==
    LET gone == {r \in BagToSet(P) : r.id = plan_id /\ r.user_id = u}
    IN  P (-) SetToBag(gone)

\* services.delete_day_plan
delete_day_plan(u, plan_id) ==
    /\ UNCHANGED <<sessions, metrics, settings, now, pc, loc, other_vars>>
    /\ UNCHANGED <<weekly_slots, fitness_level, weekly_template, cleared_dates, observed>>
    /\ IF u \notin Registered
       THEN /\ last' = "user_not_found"
            /\ UNCHANGED plans
       ELSE /\ plans' = delete_daily_plan(plans, u, plan_id)
            /\ last' = "ok"

\* the order of two texts as SQLite compares them
RECURSIVE text_less(_, _)
text_less(a, b) ==
    IF a = <<>> THEN b # <<>>
    ELSE IF b = <<>> THEN FALSE
    ELSE IF ord(Head(a)) # ord(Head(b)) THEN ord(Head(a)) < ord(Head(b))
    ELSE text_less(Tail(a), Tail(b))

\* ORDER BY start_time_local, id
RowBefore(r, q) ==
    \/ text_less(r.start_time_local, q.start_time_local)
    \/ r.start_time_local = q.start_time_local /\ r.id < q.id

\* Repo.list_daily_plans_for_date, the rows in the order of the SELECT
list_daily_plans_in_order(P, u, d) ==
    LET rows == {r \in BagToSet(P) : r.user_id = u /\ r.plan_date = d}
    IN  CHOOSE seq \in [1..Cardinality(rows) -> rows] :
            /\ \A r \in rows : \E i \in DOMAIN seq : seq[i] = r
            /\ \A i, j \in DOMAIN seq : i < j => RowBefore(seq[i], seq[j])

\* services.list_day_plans_for_date, with the order of its answer
list_day_plans_in_order(u, d) ==
    /\ UNCHANGED <<sessions, metrics, settings, now, pc, loc, other_vars>>
    /\ UNCHANGED <<weekly_slots, fitness_level, weekly_template, plans, cleared_dates>>
    /\ IF u \notin Registered
       THEN /\ last' = "user_not_found"
            /\ UNCHANGED observed
       ELSE /\ last' = "ok"
            /\ observed' = [user_id |-> u, date |-> d,
                            plans |-> list_daily_plans_in_order(plans, u, d)]

\* start times as callers write them: 07:30, 10:00, 7:30, 24:00, 07:60, 0730,
\* 07:30:00 and :30
TimeTexts ==
    {<<"0", "7", ":", "3", "0">>, <<"1", "0", ":", "0", "0">>,
     <<"7", ":", "3", "0">>, <<"2", "4", ":", "0", "0">>,
     <<"0", "7", ":", "6", "0">>, <<"0", "7", "3", "0">>,
     <<"0", "7", ":", "3", "0", ":", "0", "0">>, <<":", "3", "0">>}

TextDayPlanInputs ==
    {[date |-> 1, start_time |-> t, duration_minutes |-> 30, distance_km |-> 500,
      activity |-> "Easy run"] : t \in TimeTexts}
OtherTextDayPlanInputs ==
    {[date |-> 1, start_time |-> <<"0", "7", ":", "3", "0">>, duration_minutes |-> 30,
      distance_km |-> 500, activity |-> "Easy run"]}
ListDates == {1}

CreateDayPlanText(U, I) == \E u \in U, in \in I : create_day_plan_text(u, in)
DeleteDayPlan(U) == \E u \in U, plan_id \in 1..MaxDayPlans : delete_day_plan(u, plan_id)
ListDayPlans(U, D) == \E u \in U, d \in D : list_day_plans_in_order(u, d)

\* entries made, listed and deleted by hand
NextDayPlans ==
    \/ CreateDayPlanText({"u1", "u0"}, TextDayPlanInputs)
    \/ CreateDayPlanText({"u2"}, OtherTextDayPlanInputs)
    \/ DeleteDayPlan(UserIds)
    \/ ListDayPlans(UserIds, ListDates)

SpecDayPlans == Init /\ [][NextDayPlans]_vars

----
\* The in-memory model of Main.py. datetime.now() is the clock now, a
\* timedelta is a number of seconds, and a method's result is a record of
\* what it raised ("none" when it returned), the object as the call left it,
\* and what it returned.

\* RunMetric.__init__ with a distance and a duration in seconds or None
RunMetric(distance, duration) ==
    [distance |-> distance, duration |-> IF duration = None THEN 0 ELSE duration[1]]

\* faulty variant: a session already started is started again
begin_Restarts(s, t) ==
    [raised |-> "none", session |-> [s EXCEPT !.startTime = Some(t)]]

\* runnerSession.begin
begin(s, t) ==
    IF s.startTime # None
    THEN [raised |-> "RuntimeError", session |-> s]
    ELSE [raised |-> "none", session |-> [s EXCEPT !.startTime = Some(t)]]

\* runnerSession.record_metric of a RunMetric
record_metric(s, metric, t) ==
    LET begun == IF s.startTime = None THEN begin(s, t).session ELSE s
    IN  [raised |-> "none",
         session |-> [begun EXCEPT !.metrics = Append(@, metric),
                                   !.totalDistance = @ + metric.distance,
                                   !.totalDuration = @ + metric.duration],
         returned |-> [totalDistance |-> begun.totalDistance + metric.distance,
                       totalDuration |-> begun.totalDuration + metric.duration]]

\* faulty variant: the summary reports the clock whatever was recorded
summary_ClockAlways(s) ==
    [session_id |-> s.sessionId, started_at |-> s.startTime, ended_at |-> s.endTime,
     total_distance |-> s.totalDistance,
     total_duration |-> s.endTime[1] - s.startTime[1]]

\* runnerSession.summary
summary(s) ==
    LET effective_duration ==
            IF s.totalDuration = 0 /\ s.startTime # None /\ s.endTime # None
            THEN s.endTime[1] - s.startTime[1]
            ELSE s.totalDuration
    IN  [session_id |-> s.sessionId, started_at |-> s.startTime, ended_at |-> s.endTime,
         total_distance |-> s.totalDistance, total_duration |-> effective_duration]

\* runnerSession.reset
reset(s) ==
    [s EXCEPT !.startTime = None, !.endTime = None, !.totalDistance = 0,
              !.totalDuration = 0, !.metrics = <<>>]

\* runnerSession.finish
finish(s, t) ==
    IF s.startTime = None
    THEN [raised |-> "RuntimeError", session |-> s, returned |-> None]
    ELSE LET ended == IF s.endTime = None THEN [s EXCEPT !.endTime = Some(t)] ELSE s
         IN  [raised |-> "none", session |-> reset(ended), returned |-> Some(summary(ended))]

\* RunnerSessionFactory.create_session: a runnerSession with an id no other
\* session of the runner has
create_session(r) == NewRunnerSession(Len(r.sessionHistory) + 1)

\* the calls on the runnerSession object
SessionBegin ==
    /\ UNCHANGED <<sessions, metrics, settings, now, pc, loc, planner_vars>>
    /\ UNCHANGED <<account_vars, strava_vars, runner>>
    /\ session' = begin(session, now).session
    /\ last' = begin(session, now).raised

SessionRecordMetric(M) ==
    \E m \in M :
        /\ Len(session.metrics) < MaxMetrics
        /\ UNCHANGED <<sessions, metrics, settings, now, pc, loc>>
        /\ UNCHANGED <<weekly_slots, fitness_level, weekly_template, plans, cleared_dates>>
        /\ UNCHANGED <<account_vars, strava_vars, runner>>
        /\ session' = record_metric(session, RunMetric(m[1], m[2]), now).session
        /\ observed' = record_metric(session, RunMetric(m[1], m[2]), now).returned
        /\ last' = "none"

SessionFinish ==
    /\ UNCHANGED <<sessions, metrics, settings, now, pc, loc>>
    /\ UNCHANGED <<weekly_slots, fitness_level, weekly_template, plans, cleared_dates>>
    /\ UNCHANGED <<account_vars, strava_vars, runner>>
    /\ session' = finish(session, now).session
    /\ last' = finish(session, now).raised
    /\ IF finish(session, now).returned = None
       THEN UNCHANGED observed
       ELSE observed' = finish(session, now).returned[1]

\* Runner.startRun
startRun ==
    /\ UNCHANGED <<sessions, metrics, settings, now, pc, loc, planner_vars>>
    /\ UNCHANGED <<account_vars, strava_vars, session>>
    /\ IF runner.currentSession # None
       THEN /\ last' = "RuntimeError"
            /\ UNCHANGED runner
       ELSE /\ Len(runner.sessionHistory) < MaxSessions
            /\ runner' = [runner EXCEPT
                            !.currentSession = Some(begin(create_session(runner), now).session)]
            /\ last' = begin(create_session(runner), now).raised

\* begin called on the session startRun returned
CurrentBegin ==
    /\ runner.currentSession # None
    /\ UNCHANGED <<sessions, metrics, settings, now, pc, loc, planner_vars>>
    /\ UNCHANGED <<account_vars, strava_vars, session>>
    /\ runner' = [runner EXCEPT
                    !.currentSession = Some(begin(runner.currentSession[1], now).session)]
    /\ last' = begin(runner.currentSession[1], now).raised

\* Runner.record_session_metric
record_session_metric(distance, duration) ==
    /\ UNCHANGED <<sessions, metrics, settings, now, pc, loc>>
    /\ UNCHANGED <<weekly_slots, fitness_level, weekly_template, plans, cleared_dates>>
    /\ UNCHANGED <<account_vars, strava_vars, session>>
    /\ IF runner.currentSession = None
       THEN /\ last' = "RuntimeError"
            /\ UNCHANGED <<runner, observed>>
       ELSE LET done == record_metric(runner.currentSession[1],
                                      RunMetric(distance, duration), now)
            IN  /\ Len(runner.currentSession[1].metrics) < MaxMetrics
                /\ runner' = [runner EXCEPT !.currentSession = Some(done.session)]
                /\ observed' = done.returned
                /\ last' = "none"

\* Runner.endRun
endRun ==
    /\ UNCHANGED <<sessions, metrics, settings, now, pc, loc>>
    /\ UNCHANGED <<weekly_slots, fitness_level, weekly_template, plans, cleared_dates>>
    /\ UNCHANGED <<account_vars, strava_vars, session>>
    /\ IF runner.currentSession = None
       THEN /\ last' = "RuntimeError"
            /\ UNCHANGED <<runner, observed>>
       ELSE LET done == finish(runner.currentSession[1], now)
            IN  IF done.raised # "none"
                THEN /\ last' = done.raised
                     /\ UNCHANGED <<runner, observed>>
                ELSE /\ runner' = [currentSession |-> None,
                                   sessionHistory |->
                                      Append(runner.sessionHistory, done.returned[1])]
                     /\ observed' = done.returned[1]
                     /\ last' = "none"

\* a distance with a duration, with no duration, and with a negative one
RunMetricInputs == {<<1, Some(60)>>, <<2, None>>, <<3, Some(-60)>>}

RunnerMetricInputs == {<<1, Some(60)>>, <<2, None>>}

RecordSessionMetric(M) == \E m \in M : record_session_metric(m[1], m[2])

\* one runnerSession object used on its own, while the clock runs
NextSession ==
    \/ SessionBegin
    \/ SessionRecordMetric(RunMetricInputs)
    \/ SessionFinish
    \/ Tick

SpecSession == Init /\ [][NextSession]_vars

\* a Runner's runs, while the clock runs
NextRunner ==
    \/ startRun
    \/ CurrentBegin
    \/ RecordSessionMetric(RunnerMetricInputs)
    \/ endRun
    \/ Tick

SpecRunner == Init /\ [][NextRunner]_vars

----
\* services.add_metric on a request thread p, one store access at a time:
\* the lookup of the open session,
am_lookup(p, u, d, t) ==
    /\ pc[p] = "idle"
    /\ UNCHANGED <<sessions, metrics, settings, now, planner_vars, other_vars>>
    /\ IF get_active_session(sessions, u) = {}
       THEN /\ last' = "not_found"
            /\ UNCHANGED <<pc, loc>>
       ELSE /\ \E sid \in get_active_session(sessions, u) :
                 loc' = [loc EXCEPT ![p] = [user |-> u, sid |-> sid,
                                            distance_km |-> d, duration_seconds |-> t]]
            /\ pc' = [pc EXCEPT ![p] = "am_insert"]
            /\ UNCHANGED last

\* the INSERT and commit of Repo.add_metric,
am_insert(p) ==
    /\ pc[p] = "am_insert"
    /\ Len(metrics) < MaxMetrics
    /\ metrics' = InsertMetric(metrics, loc[p].sid, loc[p].distance_km,
                               loc[p].duration_seconds)
    /\ pc' = [pc EXCEPT ![p] = "am_sum"]
    /\ UNCHANGED <<sessions, settings, now, last, loc, planner_vars, other_vars>>

\* the two SELECTs of Repo._recalc_session_totals: the sums over the
\* session's measurements and the session's calories_per_hour,
am_sum(p) ==
    /\ pc[p] = "am_sum"
    /\ loc' = [loc EXCEPT ![p] = [user |-> loc[p].user, sid |-> loc[p].sid,
                                  total_dist |-> SumDistance(metrics, loc[p].sid),
                                  total_dur |-> SumDuration(metrics, loc[p].sid),
                                  cph |-> sessions[loc[p].sid].calories_per_hour]]
    /\ pc' = [pc EXCEPT ![p] = "am_update"]
    /\ UNCHANGED <<sessions, metrics, settings, now, last, planner_vars, other_vars>>

\* and its UPDATE and commit, with what the SELECTs returned
am_update(p) ==
    /\ pc[p] = "am_update"
    /\ sessions' = [sessions EXCEPT ![loc[p].sid] =
                      [@ EXCEPT !.total_distance_km = loc[p].total_dist,
                                !.total_duration_seconds = loc[p].total_dur,
                                !.total_calories = loc[p].total_dur * loc[p].cph]]
    /\ last' = "ok"
    /\ pc' = [pc EXCEPT ![p] = "idle"]
    /\ loc' = [loc EXCEPT ![p] = NoLocals]
    /\ UNCHANGED <<metrics, settings, now, planner_vars, other_vars>>

ConcStopInputs == {<<Some(7), Some(1800)>>}

AmLookup(M) == \E p \in Procs, m \in M : am_lookup(p, "u1", m[1], m[2])
AmInsert == \E p \in Procs : am_insert(p)
AmSum == \E p \in Procs : am_sum(p)
AmUpdate == \E p \in Procs : am_update(p)

\* one user's add_metric calls that overlap each other and a stop_run
NextMetricConc ==
    \/ StartRun({"u1"})
    \/ AmLookup(LifecycleMetricInputs)
    \/ AmInsert
    \/ AmSum
    \/ AmUpdate
    \/ StopRun({"u1"}, ConcStopInputs)

SpecMetricConc == Init /\ [][NextMetricConc]_vars

----
\* Strava import. strava_imports holds the rows of strava_activity_imports;
\* strava_notes holds, for every session created by an import, the activity
\* id its note "Imported from Strava #<id>" carries. Every registered user
\* has linked Strava credentials. A sync here receives one activity; a sync
\* that receives several goes through them one after another in the same way.

\* Repo.has_imported_strava_activity
has_imported_strava_activity(imports, u, activity_id) ==
    \E r \in imports : r.user_id = u /\ r.strava_activity_id = activity_id

\* Repo.record_strava_activity_import: INSERT OR IGNORE under
\* UNIQUE(user_id, strava_activity_id)
record_strava_activity_import(imports, u, activity_id, session_id) ==
    IF has_imported_strava_activity(imports, u, activity_id)
    THEN imports
    ELSE imports \cup {[user_id |-> u, strava_activity_id |-> activity_id,
                        session_id |-> session_id]}

\* the conditions under which strava_sync_runner passes an activity over
\* before it looks at the imports
SkipsActivity(activity) ==
    \/ activity.id = None
    \/ activity.sport \notin {"run", "trailrun", "virtualrun"}
    \/ activity.duration <= 0
    \/ activity.distance <= 0
    \/ activity.start = None

\* activities Strava may return
StravaActivities ==
    {[id |-> Some(11), sport |-> "run", duration |-> 1200, distance |-> 4,
      start |-> Some(0), calories |-> None],
     [id |-> Some(12), sport |-> "ride", duration |-> 1200, distance |-> 4,
      start |-> Some(0), calories |-> None],
     [id |-> None, sport |-> "run", duration |-> 1200, distance |-> 4,
      start |-> Some(0), calories |-> None]}

\* services.strava_sync_runner on a request thread p, one store access at a
\* time: the user and settings lookups,
sy_begin(p, u, activity) ==
    /\ pc[p] = "idle"
    /\ UNCHANGED <<sessions, metrics, now, planner_vars, other_vars>>
    /\ IF u \notin Registered
       THEN /\ last' = "user_not_found"
            /\ UNCHANGED <<settings, pc, loc>>
       ELSE /\ settings' = SettingsAfterGet(settings, u)
            /\ loc' = [loc EXCEPT ![p] = [user |-> u,
                                          cph |-> SettingsValue(settings, u),
                                          activity |-> activity]]
            /\ pc' = [pc EXCEPT ![p] = "sy_check"]
            /\ UNCHANGED last

\* the checks on the activity and the lookup of an earlier import,
sy_check(p) ==
    /\ pc[p] = "sy_check"
    /\ UNCHANGED <<sessions, metrics, settings, now, planner_vars, other_vars>>
    /\ IF \/ SkipsActivity(loc[p].activity)
          \/ has_imported_strava_activity(strava_imports, loc[p].user,
                                          loc[p].activity.id[1])
       THEN /\ last' = "skipped"
            /\ pc' = [pc EXCEPT ![p] = "idle"]
            /\ loc' = [loc EXCEPT ![p] = NoLocals]
       ELSE /\ pc' = [pc EXCEPT ![p] = "sy_create"]
            /\ UNCHANGED <<last, loc>>

\* Repo.create_session_from_import with the note naming the activity,
sy_create(p) ==
    /\ pc[p] = "sy_create"
    /\ Len(sessions) < MaxSessions
    /\ Len(metrics) < MaxMetrics
    /\ LET activity == loc[p].activity
           sid == Len(sessions) + 1
           inserted == Append(sessions,
                          ImportedRow(loc[p].user, activity.start[1], activity.duration,
                                      activity.distance, loc[p].cph, activity.calories))
       IN  /\ metrics' = InsertMetric(metrics, sid, activity.distance, activity.duration)
           /\ sessions' = _recalc_session_totals(inserted, metrics', sid)
           /\ strava_notes' = Append(strava_notes,
                                 [session_id |-> sid, user_id |-> loc[p].user,
                                  activity_id |-> activity.id[1]])
           /\ loc' = [loc EXCEPT ![p] = [user |-> loc[p].user, cph |-> loc[p].cph,
                                         activity |-> activity, sid |-> sid]]
    /\ pc' = [pc EXCEPT ![p] = "sy_record"]
    /\ UNCHANGED <<settings, now, last, planner_vars, account_vars, memory_vars,
                   strava_imports>>

\* and Repo.record_strava_activity_import
sy_record(p) ==
    /\ pc[p] = "sy_record"
    /\ strava_imports' = record_strava_activity_import(strava_imports, loc[p].user,
                                                       loc[p].activity.id[1], loc[p].sid)
    /\ last' = "imported"
    /\ pc' = [pc EXCEPT ![p] = "idle"]
    /\ loc' = [loc EXCEPT ![p] = NoLocals]
    /\ UNCHANGED <<sessions, metrics, settings, now, planner_vars, account_vars,
                   memory_vars, strava_notes>>

SyBegin(U, A) == \E p \in Procs, u \in U, activity \in A : sy_begin(p, u, activity)
SyCheck == \E p \in Procs : sy_check(p)
SyCreate == \E p \in Procs : sy_create(p)
SyRecord == \E p \in Procs : sy_record(p)

\* syncs that overlap, of users who may have a run in progress
NextStrava ==
    \/ StartRun({"u1"})
    \/ SyBegin(UserIds, StravaActivities)
    \/ SyCheck
    \/ SyCreate
    \/ SyRecord

SpecStrava == Init /\ [][NextStrava]_vars

----
\* C1: after any sequence of completed calls, every user has at most one
\* session whose ended_at is null.
C1_AtMostOneActive ==
    \A u \in UserIds : Cardinality(ActiveIds(sessions, u)) <= 1

\* a user with an open session and a finished one was just refused a start
C1_Witness ==
    /\ last = "conflict"
    /\ \E u \in Registered :
         /\ Cardinality(ActiveIds(sessions, u)) = 1
         /\ \E i \in DOMAIN sessions :
              sessions[i].user_id = u /\ sessions[i].ended_at # None

\* C2 as stated: when start_run calls for one user overlap, the store
\* refuses all but one, so no two of the user's rows have ended_at null.
C2_ConcurrentStartsExclusive ==
    \A u \in Registered : \A i, j \in ActiveIds(sessions, u) : i = j

\* C3: start_run with an open session fails with a conflict, creates no row
\* and leaves the rows as they are; without one it appends exactly one row
\* with ended_at null and zero totals.
C3_StartRun ==
    [][\A u \in Registered : start_run(u) =>
          IF ActiveIds(sessions, u) # {}
          THEN last' = "conflict" /\ sessions' = sessions /\ metrics' = metrics
          ELSE /\ last' = "ok"
               /\ Len(sessions') = Len(sessions) + 1
               /\ SubSeq(sessions', 1, Len(sessions)) = sessions
               /\ LET row == sessions'[Len(sessions')]
                  IN  /\ row.user_id = u
                      /\ row.ended_at = None
                      /\ row.total_distance_km = 0
                      /\ row.total_duration_seconds = 0
                      /\ row.total_calories = 0]_vars

\* a start was refused while the user's one open session is still there
C3_Witness ==
    /\ last = "conflict"
    /\ \E u \in Registered : \E i \in ActiveIds(sessions, u) :
         sessions[i].total_duration_seconds > 0

\* C4: a session carries the rate the settings held when start_run created
\* it; set_calories_per_hour changes no session row; no call changes a
\* session's rate; energy recomputed for an open session uses that rate.
C4_CapturedRate ==
    [][/\ \A u \in Registered : (start_run(u) /\ last' = "ok") =>
            sessions'[Len(sessions')].calories_per_hour = SettingsValue(settings, u)
       /\ \A u \in Registered, v \in RateInputs :
            set_calories_per_hour(u, v) => sessions' = sessions
       /\ \A i \in DOMAIN sessions :
            /\ sessions'[i].calories_per_hour = sessions[i].calories_per_hour
            /\ (sessions[i].ended_at = None /\ sessions'[i] # sessions[i]) =>
                 sessions'[i].total_calories =
                   sessions'[i].total_duration_seconds * sessions[i].calories_per_hour]_vars

\* an open session holds energy at the old rate after the setting changed
C4_Witness ==
    \E i \in DOMAIN sessions :
        /\ sessions[i].ended_at = None
        /\ sessions[i].calories_per_hour = DefaultCaloriesPerHour
        /\ settings[sessions[i].user_id] = Some(900)
        /\ sessions[i].total_calories = 300 * DefaultCaloriesPerHour

\* the metrics table with its rows in the order f
Reordered(mets, f) == [k \in DOMAIN mets |-> mets[f[k]]]

\* C5: an open session's totals are the sums over its measurements and
\* its energy is (duration / 3600) x its captured rate, in whatever order the
\* measurements were recorded.
C5_TotalsAreSums ==
    \A i \in DOMAIN sessions : sessions[i].ended_at = None =>
        \A f \in Permutations(DOMAIN metrics) :
            /\ sessions[i].total_distance_km = SumDistance(Reordered(metrics, f), i)
            /\ sessions[i].total_duration_seconds = SumDuration(Reordered(metrics, f), i)
            /\ sessions[i].total_calories =
                 SumDuration(Reordered(metrics, f), i) * sessions[i].calories_per_hour

\* an open session with two different measurements, 300 s and 600 s
C5_Witness ==
    \E i \in DOMAIN sessions :
        /\ sessions[i].ended_at = None
        /\ \E j, k \in DOMAIN metrics :
             /\ j < k
             /\ metrics[j].session_id = i /\ metrics[k].session_id = i
             /\ metrics[j] # metrics[k]
        /\ sessions[i].total_duration_seconds = 900

\* C6: add_metric, stop_run, pause_run and resume_run fail with a not-found
\* error when the user has no open session, and then no measurement is
\* appended and no session row changes.
C6_NoActiveSession ==
    [][\A u \in UserIds : ActiveIds(sessions, u) = {} =>
          /\ \A m \in LifecycleMetricInputs : add_metric(u, m[1], m[2]) =>
                /\ last' = "not_found"
                /\ sessions' = sessions /\ metrics' = metrics
          /\ \A in \in LifecycleStopInputs : stop_run(u, in[1], in[2]) =>
                /\ last' = "not_found"
                /\ sessions' = sessions /\ metrics' = metrics
          /\ (pause_run(u) \/ resume_run(u)) =>
                /\ last' \in {"not_found", "user_not_found"}
                /\ sessions' = sessions /\ metrics' = metrics]_vars

\* a call was refused for lack of an open session while another user has one
C6_Witness ==
    /\ last = "not_found"
    /\ \E u, v \in Registered :
         ActiveIds(sessions, u) = {} /\ ActiveIds(sessions, v) # {}

\* C7 as stated: a measurement with a non-positive distance or duration is
\* refused, so no such row is ever stored.
C7_NonPositiveRejected ==
    \A k \in DOMAIN metrics :
        metrics[k].distance > 0 /\ metrics[k].duration_seconds > 0

\* C8 as stated: stop_run without elapsed_seconds, after at least one
\* measurement, leaves total_duration_seconds equal to the sum of the
\* measurement durations.
C8_StopKeepsSum ==
    [][\A in \in StopInputs, sid \in ActiveIds(sessions, "u1") :
          (/\ in[2] = None
           /\ stop_run("u1", in[1], in[2])
           /\ \E k \in DOMAIN metrics : metrics[k].session_id = sid) =>
          sessions'[sid].total_duration_seconds = SumDuration(metrics, sid)]_vars

\* C9 as stated: stop_run with elapsed_seconds = e leaves
\* total_duration_seconds = e.
C9_ElapsedOverride ==
    [][\A in \in StopInputs, sid \in ActiveIds(sessions, "u1") :
          (in[2] # None /\ stop_run("u1", in[1], in[2])) =>
          /\ sessions'[sid].ended_at # None
          /\ sessions'[sid].total_duration_seconds = in[2][1]]_vars

\* C9 as amended: stop_run with elapsed_seconds = e leaves
\* total_duration_seconds = max(0, e), whatever was measured before.
C9_ElapsedOverrideClamped ==
    [][\A in \in StopInputs, sid \in ActiveIds(sessions, "u1") :
          (in[2] # None /\ stop_run("u1", in[1], in[2])) =>
          /\ sessions'[sid].ended_at # None
          /\ sessions'[sid].total_duration_seconds = Max(0, in[2][1])]_vars

\* a finished session holds 1800 s although its measurements sum to 300 s
C9_Witness ==
    \E i \in DOMAIN sessions :
        /\ sessions[i].ended_at # None
        /\ sessions[i].total_duration_seconds = 1800
        /\ SumDuration(metrics, i) = 300

\* C10: stop_run without elapsed_seconds takes (now - started_at) only when
\* the accumulated measurement duration is zero, and otherwise keeps the
\* accumulated duration.
C10_ClockFallback ==
    [][\A in \in StopInputs, sid \in ActiveIds(sessions, "u1") :
          (in[2] = None /\ stop_run("u1", in[1], in[2])) =>
          /\ sessions'[sid].ended_at # None
          /\ sessions'[sid].total_duration_seconds =
               IF SumDuration(metrics, sid) = 0
               THEN Max(0, now - sessions[sid].started_at)
               ELSE SumDuration(metrics, sid)]_vars

\* one session was finished on the clock, a second after its start, and
\* another on its measurements
C10_Witness ==
    \E i, j \in DOMAIN sessions :
        /\ sessions[i].ended_at # None /\ sessions[j].ended_at # None
        /\ SumDuration(metrics, i) = 0
        /\ sessions[i].total_duration_seconds = 1
        /\ SumDuration(metrics, j) = 300
        /\ sessions[j].total_duration_seconds = 300

\* C11: after stop_run the finished session's energy is (resolved duration /
\* 3600) x the rate the session has carried since its start, whether the
\* duration came from elapsed_seconds, from the measurements or from the clock.
C11_FinishEnergy ==
    [][\A in \in StopInputs, sid \in ActiveIds(sessions, "u1") :
          stop_run("u1", in[1], in[2]) =>
          /\ sessions'[sid].ended_at # None
          /\ sessions'[sid].total_duration_seconds =
               (IF in[2] # None THEN Max(0, in[2][1])
                ELSE IF SumDuration(metrics, sid) # 0 THEN SumDuration(metrics, sid)
                ELSE Max(0, now - sessions[sid].started_at))
          /\ sessions'[sid].total_calories =
               sessions'[sid].total_duration_seconds * sessions[sid].calories_per_hour]_vars

\* after the setting went to 900, one session started at the default rate
\* was finished on the clock and another on elapsed_seconds = 1800
C11_Witness ==
    /\ settings["u1"] = Some(900)
    /\ \E i, j \in DOMAIN sessions :
         /\ sessions[i].ended_at # None /\ sessions[j].ended_at # None
         /\ sessions[i].calories_per_hour = DefaultCaloriesPerHour
         /\ sessions[i].total_duration_seconds = 1
         /\ sessions[i].total_calories = DefaultCaloriesPerHour
         /\ sessions[j].total_duration_seconds = 1800
         /\ sessions[j].total_calories = 1800 * sessions[j].calories_per_hour

\* C12: stop_run sets the finished session's total_distance_km to the
\* caller's total_distance_km when one is given, and otherwise leaves it
\* equal to the sum of the recorded measurement distances.
C12_FinishDistance ==
    [][\A in \in StopInputs, sid \in ActiveIds(sessions, "u1") :
          stop_run("u1", in[1], in[2]) =>
          /\ sessions'[sid].ended_at # None
          /\ sessions'[sid].total_distance_km =
               IF in[1] # None THEN in[1][1] ELSE SumDistance(metrics, sid)]_vars

\* one session measured 5 was finished with the caller's 7, another
\* measured 3 was finished without a distance and holds 3
C12_Witness ==
    \E i, j \in DOMAIN sessions :
        /\ sessions[i].ended_at # None /\ sessions[j].ended_at # None
        /\ SumDistance(metrics, i) = 5 /\ sessions[i].total_distance_km = 7
        /\ SumDistance(metrics, j) = 3 /\ sessions[j].total_distance_km = 3

\* C13: a successful stop_run leaves the user without an open session and
\* the closed session with an end instant; a start_run that follows succeeds
\* with a new session, of another id and zero totals; and a session that has
\* an end instant keeps having one.
C13_StopReturnsToIdle ==
    [][/\ \A u \in Registered, in \in LifecycleStopInputs :
          \A sid \in ActiveIds(sessions, u) :
            stop_run(u, in[1], in[2]) =>
            /\ last' = "ok"
            /\ sessions'[sid].ended_at # None
            /\ ActiveIds(sessions', u) = {}
            /\ CanCreateActive(sessions', u)
       /\ \A u \in Registered :
            (ActiveIds(sessions, u) = {} /\ start_run(u)) =>
            /\ last' = "ok"
            /\ ActiveIds(sessions', u) = {Len(sessions) + 1}
            /\ Len(sessions) + 1 \notin DOMAIN sessions
            /\ sessions'[Len(sessions) + 1].total_distance_km = 0
            /\ sessions'[Len(sessions) + 1].total_duration_seconds = 0
            /\ sessions'[Len(sessions) + 1].total_calories = 0
       /\ \A i \in DOMAIN sessions :
            sessions[i].ended_at # None =>
            (i \in DOMAIN sessions' /\ sessions'[i].ended_at # None)]_vars

\* a user's measured session was stopped and the start that followed gave
\* the user a second, open session with zero totals
C13_Witness ==
    /\ last = "ok"
    /\ Len(sessions) = 2
    /\ \E u \in Registered :
         /\ sessions[1].user_id = u
         /\ sessions[1].ended_at # None
         /\ sessions[1].total_duration_seconds = 300
         /\ ActiveIds(sessions, u) = {2}
         /\ sessions[2].total_duration_seconds = 0
         /\ sessions[2].total_distance_km = 0
         /\ sessions[2].total_calories = 0

\* C14 as stated: finish_session on a session whose ended_at is already set
\* (the second of two stop_run calls that both found the session open)
\* leaves ended_at at the value set before.
C14_FinishKeepsEndInstant ==
    [][\A p \in Procs :
          (/\ pc[p] = "finish"
           /\ sessions[loc[p].sid].ended_at # None
           /\ st_finish(p)) =>
          sessions'[loc[p].sid].ended_at = sessions[loc[p].sid].ended_at]_vars

\* C15: pause_run and resume_run change no session, measurement or settings
\* row; with an open session pause_run answers is_paused = true and
\* resume_run is_paused = false; and a stop_run without elapsed_seconds and
\* without measurements, also right after a pause, counts the whole time
\* since started_at.
C15_PauseResumeFrame ==
    [][\A u \in {"u1", "u0"} :
          /\ (pause_run(u) \/ resume_run(u)) =>
                /\ sessions' = sessions /\ metrics' = metrics /\ settings' = settings
          /\ (u \in Registered /\ ActiveIds(sessions, u) # {}) =>
                /\ pause_run(u) => last' = "paused"
                /\ resume_run(u) => last' = "resumed"
          /\ \A in \in LifecycleStopInputs, sid \in ActiveIds(sessions, "u1") :
                (/\ stop_run("u1", in[1], in[2])
                 /\ \A k \in DOMAIN metrics : metrics[k].session_id # sid) =>
                sessions'[sid].total_duration_seconds = now - sessions[sid].started_at]_vars

\* the latest call paused, at 1, an open session without measurements that
\* started at 0: the state a stop_run after a pause acts on
C15_Witness ==
    /\ last = "paused"
    /\ now = 1
    /\ \E sid \in ActiveIds(sessions, "u1") :
         /\ sessions[sid].started_at = 0
         /\ \A k \in DOMAIN metrics : metrics[k].session_id # sid

\* the measurements of session sid, in the order they were recorded
MetricsOf(mets, sid) == SelectSeq(mets, LAMBDA m : m.session_id = sid)

\* C16: once a session is finished, no later start_run, add_metric,
\* stop_run, pause_run, resume_run or set_calories_per_hour call of any user
\* changes a field of it or adds a measurement to it.
C16_FinishedIsFrozen ==
    [][\A i \in DOMAIN sessions : sessions[i].ended_at # None =>
          /\ i \in DOMAIN sessions'
          /\ sessions'[i] = sessions[i]
          /\ MetricsOf(metrics', i) = MetricsOf(metrics, i)]_vars

\* after a user's measured session was finished, the same user started
\* another one and recorded a measurement in it
C16_Witness ==
    /\ last = "ok"
    /\ Len(sessions) = 2
    /\ sessions[1].user_id = sessions[2].user_id
    /\ sessions[1].ended_at # None
    /\ sessions[1].total_duration_seconds = 300
    /\ sessions[2].ended_at = None
    /\ sessions[2].total_duration_seconds = 300
    /\ Len(MetricsOf(metrics, 1)) = 1
    /\ Len(MetricsOf(metrics, 2)) = 1

\* the length of a window in minutes
WindowLength(b) ==
    _local_hhmm_to_minutes(b.end_time) - _local_hhmm_to_minutes(b.start_time)

\* a weekday's windows that have a positive length, in the caller's order
PositiveWindows(slots, weekday) ==
    SelectSeq(DayBlocks(slots, weekday), LAMBDA b : WindowLength(b) > 0)

\* C17: every window of L > 0 minutes gives exactly three activities that
\* tile it: the warm-up from the window's start for L div 3 minutes, the main
\* run from there for (L div 3) + (L mod 3), the cooldown from there for
\* L div 3 up to the window's end, L minutes in all; a window of L <= 0 gives
\* nothing.
C17_ThreeBlocksTileWindow ==
    weekly_template # <<>> =>
    \A wd \in 0..6 :
        LET windows == PositiveWindows(weekly_slots, wd)
            acts == weekly_template[wd + 1].activities
        IN  /\ Len(acts) = 3 * Len(windows)
            /\ \A k \in 1..Len(windows) :
                 LET L == WindowLength(windows[k])
                     from == _local_hhmm_to_minutes(windows[k].start_time)
                     upto == _local_hhmm_to_minutes(windows[k].end_time)
                     warmup == acts[3 * k - 2]
                     main == acts[3 * k - 1]
                     cooldown == acts[3 * k]
                 IN  /\ warmup.activity = "Warm-up & mobility"
                     /\ main.activity = "Main run"
                     /\ cooldown.activity = "Cooldown & stretching"
                     /\ _local_hhmm_to_minutes(warmup.start_time) = from
                     /\ warmup.duration_minutes = L \div 3
                     /\ _local_hhmm_to_minutes(main.start_time) = from + (L \div 3)
                     /\ main.duration_minutes = (L \div 3) + (L % 3)
                     /\ _local_hhmm_to_minutes(cooldown.start_time) =
                          from + (L \div 3) + (L \div 3) + (L % 3)
                     /\ cooldown.duration_minutes = L \div 3
                     /\ _local_hhmm_to_minutes(cooldown.start_time)
                          + cooldown.duration_minutes = upto
                     /\ warmup.duration_minutes + main.duration_minutes
                          + cooldown.duration_minutes = L

\* the plan for a 40-minute window and a window that ends before it starts:
\* three activities of 13, 14 and 13 minutes
C17_Witness ==
    /\ weekly_template # <<>>
    /\ weekly_slots = << [weekday |-> 0, start_time |-> <<7, 0>>, end_time |-> <<7, 40>>],
                         [weekday |-> 0, start_time |-> <<10, 0>>, end_time |-> <<9, 30>>] >>
    /\ Len(weekly_template[1].activities) = 3
    /\ weekly_template[1].activities[1].duration_minutes = 13
    /\ weekly_template[1].activities[2].duration_minutes = 14
    /\ weekly_template[1].activities[3].duration_minutes = 13
    /\ weekly_template[1].activities[3].start_time = <<7, 27>>

\* the caller's windows of a weekday do not overlap pairwise
WindowsDisjoint(slots, weekday) ==
    LET blocks == DayBlocks(slots, weekday)
    IN  \A i, j \in DOMAIN blocks : i # j =>
            \/ _local_hhmm_to_minutes(blocks[i].end_time)
                 <= _local_hhmm_to_minutes(blocks[j].start_time)
            \/ _local_hhmm_to_minutes(blocks[j].end_time)
                 <= _local_hhmm_to_minutes(blocks[i].start_time)

\* C18 as stated: for a weekday whose windows do not overlap pairwise, in
\* whatever order they were sent, the planner's activities are in
\* chronological order of start time and no two of them overlap.
C18_DayIsChronological ==
    weekly_template # <<>> =>
    \A wd \in 0..6 : WindowsDisjoint(weekly_slots, wd) =>
        LET acts == weekly_template[wd + 1].activities
        IN  \A a, b \in DOMAIN acts : a < b =>
                /\ _local_hhmm_to_minutes(acts[a].start_time)
                     <= _local_hhmm_to_minutes(acts[b].start_time)
                /\ _local_hhmm_to_minutes(acts[a].start_time)
                     + acts[a].duration_minutes
                     <= _local_hhmm_to_minutes(acts[b].start_time)

\* the pace of the three fitness tiers, in distance units per hour
TierPace(level) ==
    IF level = Some("athlete") THEN 11 ELSE IF level = Some("regular") THEN 9 ELSE 7

\* every activity of the template
TemplateActivities ==
    {weekly_template[d].activities[k] :
        <<d, k>> \in {x \in (DOMAIN weekly_template) \X (1..(3 * MaxSlots)) :
                        x[2] <= Len(weekly_template[x[1]].activities)}}

\* C19 as stated: the main run's distance equals main_minutes x (pace / 60)
\* with pace 7 for beginner, 9 for regular and 11 for athlete, and warm-up and
\* cooldown carry distance 0. (In hundredths: 60 x distance = 100 x minutes x
\* pace.)
C19_MainDistanceExact ==
    fitness_level \in {Some("beginner"), Some("regular"), Some("athlete")} =>
    \A act \in TemplateActivities :
        IF act.activity = "Main run"
        THEN 60 * act.distance_km = 100 * act.duration_minutes * TierPace(fitness_level)
        ELSE act.distance_km = 0

\* C19 as amended: the main run's distance equals main_minutes x (pace / 60)
\* rounded to two decimals, that is, within half a hundredth of it, and
\* warm-up and cooldown carry distance 0.
C19_MainDistanceRounded ==
    fitness_level \in {Some("beginner"), Some("regular"), Some("athlete")} =>
    \A act \in TemplateActivities :
        IF act.activity = "Main run"
        THEN LET exact60 == 100 * act.duration_minutes * TierPace(fitness_level)
             IN  /\ 60 * act.distance_km - exact60 <= 30
                 /\ exact60 - 60 * act.distance_km <= 30
        ELSE act.distance_km = 0

\* a beginner's 14-minute main run is planned at 1.63, between a warm-up and
\* a cooldown of distance 0
C19_Witness ==
    /\ fitness_level = Some("beginner")
    /\ \E act \in TemplateActivities :
         /\ act.activity = "Main run"
         /\ act.duration_minutes = 14
         /\ act.distance_km = 163
    /\ \E act \in TemplateActivities : act.activity # "Main run" /\ act.distance_km = 0

\* the dates an apply request covers
AppliedRange(in, t) == start_date(in, t)..(start_date(in, t) + days_ahead(in) - 1)

\* C20: the planner returns exactly seven template days, one for each of the
\* weekdays 0..6; a weekday without a window has no activity; and after the
\* template is applied, every date of the applied range on such a weekday has
\* no calendar entry, also when it had some before.
C20_RestDaysStayEmpty ==
    [][/\ weekly_template' # <<>> =>
            /\ Len(weekly_template') = 7
            /\ \A wd \in 0..6 :
                 /\ Cardinality({i \in DOMAIN weekly_template' :
                                   weekly_template'[i].weekday = wd}) = 1
                 /\ DayBlocks(weekly_slots', wd) = <<>> =>
                      \A i \in DOMAIN weekly_template' :
                          weekly_template'[i].weekday = wd =>
                          weekly_template'[i].activities = <<>>
       /\ \A u \in Registered, in \in ApplyInputs :
            (/\ weekly_template # <<>>
             /\ apply_test_weekly_ai_plan(u, weekly_template, in)
             /\ last' = "ok") =>
            \A d \in AppliedRange(in, now) :
                DayBlocks(weekly_slots, weekday_of(d)) = <<>> =>
                list_daily_plans_for_date(plans', u, d) = EmptyBag]_vars

\* a template with activities on Monday only was applied over days 0..7: the
\* Tuesday entry and the Thursday entry made by hand before were cleared, and
\* those dates are empty
C20_Witness ==
    /\ last = "ok"
    /\ weekly_template # <<>>
    /\ weekly_template[1].activities # <<>>
    /\ weekly_template[2].activities = <<>>
    /\ weekly_template[4].activities = <<>>
    /\ cleared_dates = <<1, 3>>
    /\ list_daily_plans_for_date(plans, "u1", 1) = EmptyBag
    /\ list_daily_plans_for_date(plans, "u1", 3) = EmptyBag
    /\ BagCardinality(list_daily_plans_for_date(plans, "u1", 0)) = 3
    /\ BagCardinality(list_daily_plans_for_date(plans, "u1", 7)) = 3

\* C21: for an existing user, when the external path raises,
\* build_test_weekly_ai_plan raises nothing and answers what the deterministic
\* planner gives for the same level and windows.
C21_ErrorFallsBack ==
    [][\A u \in Registered, ext \in ExternalOutcomes :
          (ext.kind = "error" /\ build_test_weekly_ai_plan(u, ext)) =>
          /\ last' = "ok"
          /\ weekly_template' = _build_weekly_plan_stub(fitness_level, weekly_slots)
          /\ Len(weekly_template') = 7
          /\ \A wd \in 0..6 :
               Len(weekly_template'[wd + 1].activities)
                 = 3 * Len(PositiveWindows(weekly_slots, wd))]_vars

\* a preview that was answered without error holds the deterministic plan of
\* a Monday window: warm-up, main run and cooldown
C21_Witness ==
    /\ last = "ok"
    /\ weekly_template = _build_weekly_plan_stub(fitness_level, weekly_slots)
    /\ Len(weekly_template[1].activities) = 3
    /\ weekly_template[1].activities[2].activity = "Main run"

\* a day of an external template breaks the output schema for the windows
DayViolatesSchema(day, slots) ==
    LET acts == day.activities
        blocks == DayBlocks(slots, day.weekday)
        from(a) == _local_hhmm_to_minutes(a.start_time)
    IN  \/ \E k \in DOMAIN acts : acts[k].duration_minutes <= 0
        \/ \E j, k \in DOMAIN acts :
             j < k /\ from(acts[k]) < from(acts[j]) + acts[j].duration_minutes
        \/ \E k \in DOMAIN acts :
             ~\E b \in DOMAIN blocks :
                 /\ _local_hhmm_to_minutes(blocks[b].start_time) <= from(acts[k])
                 /\ from(acts[k]) + acts[k].duration_minutes
                      <= _local_hhmm_to_minutes(blocks[b].end_time)

\* a parsed external answer breaks the output schema
ViolatesSchema(ext, slots) ==
    \/ ext.weekly_template = None
    \/ \E d \in DOMAIN ext.weekly_template[1] :
         /\ ext.weekly_template[1][d].weekday \in 0..6
         /\ DayViolatesSchema(ext.weekly_template[1][d], slots)

\* C22 as stated: when the external path returns a parsed answer that breaks
\* the output schema (no weekly_template, activities out of order or
\* overlapping, a duration that is not positive, an activity outside the
\* day's windows), build_test_weekly_ai_plan answers the deterministic
\* planner's output.
C22_SchemaViolationFallsBack ==
    [][\A u \in Registered, ext \in ExternalOutcomes :
          (/\ ext.kind = "response"
           /\ ViolatesSchema(ext, weekly_slots)
           /\ build_test_weekly_ai_plan(u, ext)) =>
          weekly_template' = _build_weekly_plan_stub(fitness_level, weekly_slots)]_vars

\* the calendar entries a template asks for on date d: one for each activity
\* of the template's day of that weekday, as a bag
TemplateEntries(template, u, d) ==
    LET acts == template_by_weekday(template, weekday_of(d))
        entry(k) == [user_id |-> u, plan_date |-> d,
                     start_time_local |-> acts[k].start_time,
                     duration_minutes |-> acts[k].duration_minutes,
                     distance_km |-> acts[k].distance_km,
                     activity |-> acts[k].activity,
                     description |-> acts[k].description]
    IN  [r \in {entry(k) : k \in DOMAIN acts} |->
            Cardinality({k \in DOMAIN acts : entry(k) = r})]

\* C23: after a completed apply_test_weekly_ai_plan, on every date of the
\* range the user's entries are exactly one for each activity of the template
\* day of that date's weekday, with its start time, duration, distance, label
\* and description, and no entry the date held before is left.
C23_ApplyOverwrites ==
    [][\A u \in Registered, in \in ApplyInputs :
          (/\ weekly_template # <<>>
           /\ apply_test_weekly_ai_plan(u, weekly_template, in)
           /\ last' = "ok") =>
          \A d \in AppliedRange(in, now) :
              /\ list_daily_plans_for_date(plans', u, d)
                   = TemplateEntries(weekly_template, u, d)
              /\ \A r \in BagToSet(list_daily_plans_for_date(plans, u, d)) :
                   CopiesIn(r, plans') = CopiesIn(r, TemplateEntries(weekly_template, u, d))]_vars

\* a template with a Thursday window was applied over a Thursday that held
\* an entry made by hand: the date now holds the three planned activities
\* and no other entry
C23_Witness ==
    /\ last = "ok"
    /\ weekly_template # <<>>
    /\ 3 \in {cleared_dates[k] : k \in DOMAIN cleared_dates}
    /\ BagCardinality(list_daily_plans_for_date(plans, "u1", 3)) = 3
    /\ list_daily_plans_for_date(plans, "u1", 3) = TemplateEntries(weekly_template, "u1", 3)
    /\ \A r \in BagToSet(plans) : r.user_id = "u1" /\ r.plan_date = 3 => r.activity # "Easy run"

\* the dates of S, each once, in ascending order
AscendingDates(S) ==
    LET nth(n) == CHOOSE d \in S : Cardinality({e \in S : e < d}) = n - 1
    IN  [n \in 1..Cardinality(S) |-> nth(n)]

\* the user's dates of a range hold what the template asks for, as a
\* completed apply of that template over that range leaves them
RangeHoldsTemplate(pl, template, u, range) ==
    \A d \in range : list_daily_plans_for_date(pl, u, d) = TemplateEntries(template, u, d)

\* C24: applying a template again to a range it was applied to leaves the
\* calendar entries as they are, and the second run reports as cleared the
\* dates of the range that the first run populated.
C24_ApplyIdempotent ==
    [][\A u \in Registered, in \in ApplyInputs :
          (/\ weekly_template # <<>>
           /\ days_ahead(in) > 0
           /\ RangeHoldsTemplate(plans, weekly_template, u, AppliedRange(in, now))
           /\ apply_test_weekly_ai_plan(u, weekly_template, in)) =>
          /\ last' = "ok"
          /\ plans' = plans
          /\ cleared_dates' =
               AscendingDates({d \in AppliedRange(in, now) :
                                 TemplateEntries(weekly_template, u, d) # EmptyBag})]_vars

\* the second run over days 0..7 of a template with activities on Monday and
\* Thursday reported the three populated dates as cleared
C24_Witness ==
    /\ last = "ok"
    /\ weekly_template # <<>>
    /\ cleared_dates = <<0, 3, 7>>
    /\ RangeHoldsTemplate(plans, weekly_template, "u1", 0..7)
    /\ BagCardinality(list_daily_plans_for_date(plans, "u1", 0)) = 3
    /\ BagCardinality(list_daily_plans_for_date(plans, "u1", 7)) = 3

\* C25: the cleared_dates of apply_test_weekly_ai_plan are exactly the dates
\* of the range on which the user had an entry right before the call, each
\* once and in ascending order; entries of dates outside the range and of
\* other users are left as they are.
C25_ClearedDatesAndFrame ==
    [][\A u \in Registered, in \in ApplyInputs :
          (/\ weekly_template # <<>>
           /\ apply_test_weekly_ai_plan(u, weekly_template, in)
           /\ last' = "ok") =>
          /\ cleared_dates' =
               AscendingDates({d \in AppliedRange(in, now) :
                                 \E r \in BagToSet(plans) :
                                     r.user_id = u /\ r.plan_date = d})
          /\ \A r \in BagToSet(plans) \cup BagToSet(plans') :
               (r.user_id # u \/ r.plan_date \notin AppliedRange(in, now)) =>
               CopiesIn(r, plans') = CopiesIn(r, plans)]_vars

\* an apply over days 2..3 cleared the Thursday entry made by hand, and left
\* the user's Tuesday entry and the other user's entry in place
C25_Witness ==
    /\ last = "ok"
    /\ weekly_template # <<>>
    /\ cleared_dates = <<3>>
    /\ \E r \in BagToSet(plans) :
         r.user_id = "u1" /\ r.plan_date = 1 /\ r.activity = "Easy run"
    /\ \E r \in BagToSet(plans) : r.user_id = "u2" /\ r.plan_date = 1
    /\ \A r \in BagToSet(plans) :
         (r.user_id = "u1" /\ r.plan_date = 3) => r.activity # "Easy run"

\* C26 as stated: a calendar read of a date of the range, made while
\* apply_test_weekly_ai_plan runs, sees either all the entries the date had
\* before or all its new entries, never a date in between.
C26_ReadSeesOldOrNew ==
    [][\A u \in Registered, d \in ReadDates :
          (/\ pc["p1"] # "idle"
           /\ loc["p1"].user = u
           /\ d \in loc["p1"].start_date..(loc["p1"].end_date_excl - 1)
           /\ list_day_plans_for_date(u, d)) =>
          \/ observed'.plans = list_daily_plans_for_date(loc["p1"].before, u, d)
          \/ observed'.plans = TemplateEntries(loc["p1"].template, u, d)]_vars

\* what create_day_plan turns down in an entry made by hand: a start time
\* that is no clock time, or a duration that is not positive
InvalidActivity(act) ==
    \/ ~(0 <= act.start_time[1] /\ act.start_time[1] <= 23)
    \/ ~(0 <= act.start_time[2] /\ act.start_time[2] <= 59)
    \/ act.duration_minutes <= 0

HasInvalidActivity(template) ==
    \E i \in DOMAIN template :
        \E k \in DOMAIN template[i].activities :
            InvalidActivity(template[i].activities[k])

\* C27 as stated: apply_test_weekly_ai_plan given a template with an invalid
\* activity on any weekday answers with a validation error and has neither
\* deleted nor inserted a calendar entry.
C27_InvalidTemplateRejected ==
    [][\A u \in Registered, template \in PostedTemplates, in \in PostedApplyInputs :
          (/\ HasInvalidActivity(template)
           /\ apply_test_weekly_ai_plan(u, template, in)) =>
          /\ last' = "validation"
          /\ plans' = plans]_vars

\* C28: get_running_plan_calendar for a year and month answers with every
\* civil date of that month exactly once in ascending order, each with its
\* weekday, with is_today true only for the date that is today, and with
\* exactly the user's stored entries of that date (none when it has none).
C28_CalendarCoversMonth ==
    [][\A u \in Registered, ym \in MonthInputs :
          (/\ ym[2] \in 1..12
           /\ get_running_plan_calendar(u, ym[1], ym[2])) =>
          LET days == observed'.days
              first == date(ym[1], ym[2], 1)
          IN  /\ last' = "ok"
              /\ Len(days) = days_in_month(ym[1], ym[2])
              /\ \A i \in DOMAIN days :
                   /\ days[i].date = first + (i - 1)
                   /\ days[i].weekday = days[i].date % 7
                   /\ days[i].is_today = (days[i].date = now \div 86400)
                   /\ \A r \in BagToSet(plans) :
                        (r.user_id = u /\ r.plan_date = days[i].date) =>
                        CopiesIn(CalendarPlan(r), days[i].plans) = CopiesIn(r, plans)
                   /\ \A c \in BagToSet(days[i].plans) :
                        \E r \in BagToSet(plans) :
                            /\ r.user_id = u
                            /\ r.plan_date = days[i].date
                            /\ CalendarPlan(r) = c]_vars

\* a January in which today falls was shown, with an entry on one of its
\* dates and none on another
C28_Witness ==
    /\ last = "ok"
    /\ observed # <<>>
    /\ observed.month = 1
    /\ Len(observed.days) = 31
    /\ \E i, j, k \in DOMAIN observed.days :
         /\ observed.days[i].is_today
         /\ observed.days[j].plans # EmptyBag
         /\ observed.days[k].plans = EmptyBag

\* the start hours the distribution's five buckets are said to cover
SlotHours(slot) ==
    CASE slot = "morning" -> 5..9
      [] slot = "forenoon" -> 10..13
      [] slot = "afternoon" -> 14..17
      [] slot = "evening" -> 18..21
      [] slot = "night" -> (22..23) \cup (0..4)

\* the sessions a time-of-day request of the user covers
InStatRange(u, days) ==
    {i \in DOMAIN sessions :
        sessions[i].user_id = u /\ sessions[i].started_at >= now - days * 86400}

\* C29 as stated: in the time-of-day distribution the shares sum to 1
\* whenever total_sessions > 0.
C29_SharesSumToOne ==
    [][\A u \in UserIds, days \in StatDays :
          (/\ get_stats_time_of_day(u, days)
           /\ observed'.time_of_day.total_sessions > 0) =>
          LET dist == observed'.time_of_day.time_of_day_distribution
          IN  SumOver([slot \in Slots |-> dist[slot].percentage], Slots) = 10000]_vars

\* C29, amended: every session in range falls in exactly one of the five
\* buckets by its start hour (morning 05-10, forenoon 10-14, afternoon 14-18,
\* evening 18-22, night 22-05), the bucket counts sum to total_sessions, and
\* the shares, each rounded to four decimals, sum to 1 to within 0.0002
\* whenever total_sessions > 0; when total_sessions is 0 every share is 0.
C29_BucketsPartition ==
    [][\A u \in UserIds, days \in StatDays :
          get_stats_time_of_day(u, days) =>
          LET answer == observed'.time_of_day
              dist == answer.time_of_day_distribution
              shares == SumOver([slot \in Slots |-> dist[slot].percentage], Slots)
          IN  /\ \A i \in InStatRange(u, days) :
                   Cardinality({slot \in Slots :
                       ((sessions[i].started_at \div 3600) % 24) \in SlotHours(slot)}) = 1
              /\ \A slot \in Slots :
                   dist[slot].sessions =
                       Cardinality({i \in InStatRange(u, days) :
                           ((sessions[i].started_at \div 3600) % 24) \in SlotHours(slot)})
              /\ answer.total_sessions = Cardinality(InStatRange(u, days))
              /\ SumOver([slot \in Slots |-> dist[slot].sessions], Slots)
                   = answer.total_sessions
              /\ answer.total_sessions > 0 =>
                   (10000 - 2 <= shares /\ shares <= 10000 + 2)
              /\ answer.total_sessions = 0 =>
                   \A slot \in Slots : dist[slot].percentage = 0]_vars

\* a distribution over three sessions in three different buckets, one of
\* them started at ten o'clock, was answered
C29_Witness ==
    /\ observed # <<>>
    /\ observed.time_of_day.total_sessions = 3
    /\ observed.time_of_day.time_of_day_distribution["forenoon"].sessions = 1
    /\ observed.time_of_day.time_of_day_distribution["night"].sessions = 1
    /\ observed.time_of_day.time_of_day_distribution["evening"].sessions = 1

\* the finished sessions a dashboard request of the user covers
FinishedInRange(u, span) ==
    {i \in DOMAIN sessions :
        /\ sessions[i].user_id = u
        /\ sessions[i].ended_at # None
        /\ sessions[i].started_at >= now - span * 86400}

\* C30 as stated: the rollups of get_dashboard count only finished sessions
\* (no count, distance or duration has a share of a session whose ended_at
\* is still null), and get_dashboard changes no stored row.
C30_DashboardCountsFinished ==
    [][\A u \in Registered, in \in DashboardInputs :
          get_dashboard(u, in[1], in[2]) =>
          LET finished == FinishedInRange(u, in[1])
              trained == FinishedInRange(u, in[2] * 7)
          IN  /\ observed'.overview.total_sessions = Cardinality(finished)
              /\ observed'.overview.total_distance_km =
                   SumOver([i \in finished |-> sessions[i].total_distance_km], finished)
              /\ observed'.overview.total_duration_seconds =
                   SumOver([i \in finished |-> sessions[i].total_duration_seconds], finished)
              /\ SumOver([d \in DOMAIN observed'.daily.daily |->
                             observed'.daily.daily[d].sessions],
                         DOMAIN observed'.daily.daily) = Cardinality(finished)
              /\ observed'.time_of_day.total_sessions = Cardinality(finished)
              /\ SumOver(observed'.training_load.weeks,
                         DOMAIN observed'.training_load.weeks) =
                   SumOver([i \in trained |-> sessions[i].total_distance_km * 100], trained)
              /\ UNCHANGED <<sessions, metrics, settings, plans>>]_vars

\* the number of links between a coach and a runner
LinkCount(L, coach_id, runner_id) ==
    Cardinality({i \in DOMAIN L : L[i].coach_id = coach_id /\ L[i].runner_id = runner_id})

\* C31: bind_runner_to_coach with a coach and the code of a runner never
\* raises, the first time or on a repeat, and leaves exactly one link for the
\* pair; a repeat changes no link; list_coach_runners returns every runner
\* bound to the coach exactly once.
C31_BindIdempotent ==
    [][/\ \A coach_id \in AccountIds, code \in CodeInputs :
            (/\ bind_runner_to_coach(coach_id, code)
             /\ \E c \in users : c.id = coach_id /\ c.role = "coach"
             /\ \E r \in users : r.role = "runner" /\ r.runner_code = Some(code)) =>
            \A r \in users :
                (r.role = "runner" /\ r.runner_code = Some(code)) =>
                /\ last' = "ok"
                /\ LinkCount(links', coach_id, r.id) = 1
                /\ LinkCount(links, coach_id, r.id) = 1 => links' = links
       /\ \A coach_id \in AccountIds :
            (list_coach_runners(coach_id) /\ last' = "ok") =>
            \A r \in users :
                LinkCount(links, coach_id, r.id) >= 1 =>
                CopiesIn([id |-> r.id, name |-> r.username,
                          runner_code |-> r.runner_code], observed'.runners) = 1]_vars

\* a coach bound to a runner was told its runners, and the answer has that
\* runner once
C31_Witness ==
    /\ last = "ok"
    /\ Len(links) = 1
    /\ observed # <<>>
    /\ "runners" \in DOMAIN observed
    /\ observed.coach_id = links[1].coach_id
    /\ BagCardinality(observed.runners) = 1

\* C34: after any sequence of create_user and resolve_or_create_user calls no
\* two users share a username, every runner has a code in 1..10000, no two
\* runners share a code, and no coach has a code; a create_user with a
\* username that exists fails and adds no row.
C34_UsersWellFormed ==
    [][/\ \A u, v \in users' : u.username = v.username => u = v
       /\ \A u \in users' :
            /\ u.role \in {"runner", "coach"}
            /\ u.role = "runner" =>
                 (u.runner_code # None /\ u.runner_code[1] \in 1..10000)
            /\ u.role = "coach" => u.runner_code = None
       /\ \A u, v \in users' :
            (u.role = "runner" /\ v.role = "runner" /\ u.runner_code = v.runner_code)
                => u = v
       /\ \A username \in Usernames, role \in RoleInputs :
            (/\ create_user(username, role)
             /\ \E u \in users : u.username = username) =>
            (last' # "ok" /\ users' = users)]_vars

\* three users, runners and a coach among them, were made, and a create_user
\* with a name already taken was turned down
C34_Witness ==
    /\ Cardinality(users) = 3
    /\ \E u, v \in users : u.role = "runner" /\ v.role = "runner" /\ u # v
    /\ \E u \in users : u.role = "coach"
    /\ last = "conflict"

\* a start time of two digits, a colon and two digits, with hour 00-23 and
\* minute 00-59
WellFormedTime(text) ==
    /\ Len(text) = 5
    /\ text[3] = ":"
    /\ \A i \in {1, 2, 4, 5} : text[i] \in {"0", "1", "2", "3", "4", "5", "6", "7", "8", "9"}
    /\ 10 * (ord(text[1]) - 1) + (ord(text[2]) - 1) <= 23
    /\ 10 * (ord(text[4]) - 1) + (ord(text[5]) - 1) <= 59

\* C32 as stated: create_day_plan turns down every start_time that is not
\* exactly two digits, a colon and two digits with hour 00-23 and minute
\* 00-59, such as 7:30, and creates no calendar entry.
C32_MalformedTimeRejected ==
    [][\A u \in Registered, in \in TextDayPlanInputs :
          (/\ create_day_plan_text(u, in)
           /\ ~WellFormedTime(in.start_time)) =>
          (last' = "validation" /\ plans' = plans)]_vars

\* the minutes after midnight a stored start time stands for
StartMinutes(r) ==
    LET hm == parse_start_time(r.start_time_local)[1] IN 60 * hm[1] + hm[2]

\* C33 as stated: create_day_plan adds one entry for its user and date and
\* delete_day_plan removes the entry of that id if it is the caller's own and
\* nothing otherwise, so that list_day_plans_for_date returns exactly the
\* user's entries of the date made and not since deleted by that user,
\* ordered by start time.
C33_ListIsCreatedMinusDeleted ==
    [][/\ \A u \in Registered, in \in TextDayPlanInputs \cup OtherTextDayPlanInputs :
            (create_day_plan_text(u, in) /\ last' = "ok") =>
            \E r \in BagToSet(plans') :
                /\ r.user_id = u
                /\ r.plan_date = in.date
                /\ r.id \notin PlanIdsOf(plans)
                /\ plans' = plans (+) SetToBag({r})
       /\ \A u \in Registered, plan_id \in 1..MaxDayPlans :
            delete_day_plan(u, plan_id) =>
            \A r \in BagToSet(plans) :
                CopiesIn(r, plans') =
                    IF r.id = plan_id /\ r.user_id = u THEN 0 ELSE CopiesIn(r, plans)
       /\ \A u \in Registered, d \in ListDates :
            list_day_plans_in_order(u, d) =>
            LET answer == observed'.plans
            IN  /\ \A r \in BagToSet(plans) :
                     (r.user_id = u /\ r.plan_date = d) =>
                     Cardinality({i \in DOMAIN answer : answer[i] = r}) = 1
                /\ \A i \in DOMAIN answer :
                     /\ answer[i].user_id = u
                     /\ answer[i].plan_date = d
                     /\ CopiesIn(answer[i], plans) = 1
                /\ \A i, j \in DOMAIN answer :
                     i < j => StartMinutes(answer[i]) <= StartMinutes(answer[j])]_vars

\* the sums over the metrics a runnerSession holds
MetricDistances(s) ==
    SumOver([i \in DOMAIN s.metrics |-> s.metrics[i].distance], DOMAIN s.metrics)
MetricDurations(s) ==
    SumOver([i \in DOMAIN s.metrics |-> s.metrics[i].duration], DOMAIN s.metrics)

\* C35 as stated: for any record_metric calls on a runnerSession followed by
\* finish, the summary's total_distance and total_duration are the sums of
\* the recorded distances and durations, and the session object is reset.
C35_SummaryIsSums ==
    [][(SessionFinish /\ last' = "none") =>
          /\ observed'.total_distance = MetricDistances(session)
          /\ observed'.total_duration = MetricDurations(session)
          /\ session'.startTime = None
          /\ session'.endTime = None
          /\ session'.totalDistance = 0
          /\ session'.totalDuration = 0
          /\ session'.metrics = <<>>]_vars

\* C35, amended: the summary's total_distance is the sum of the recorded
\* distances and its total_duration is the sum of the recorded durations or,
\* when that sum is zero, the time from the session's start to its finish;
\* after finish returns the session object is reset.
C35_SummaryIsSumsOrElapsed ==
    [][(SessionFinish /\ last' = "none") =>
          /\ observed'.total_distance = MetricDistances(session)
          /\ observed'.total_duration =
                IF MetricDurations(session) = 0
                THEN now - session.startTime[1]
                ELSE MetricDurations(session)
          /\ session'.startTime = None
          /\ session'.endTime = None
          /\ session'.totalDistance = 0
          /\ session'.totalDuration = 0
          /\ session'.metrics = <<>>]_vars

\* session S1 was finished after metrics of distance 1 over 60 seconds and
\* of distance 2 with no duration, and is reset
C35_Witness ==
    /\ last = "none"
    /\ session = NewRunnerSession("S1")
    /\ observed # <<>>
    /\ observed.session_id = "S1"
    /\ observed.total_distance = 3
    /\ observed.total_duration = 60

\* C36: begin on a session already started raises RuntimeError and leaves it
\* as it was; startRun while a session is in progress raises RuntimeError and
\* leaves currentSession as it was; so a Runner's session in progress, if
\* any, is one started and not ended session, and sessionHistory grows by one
\* summary with every endRun that returns and by nothing else.
C36_OneSessionInProgress ==
    [][/\ CurrentBegin => (last' = "RuntimeError" /\ runner' = runner)
       /\ (startRun /\ runner.currentSession # None) =>
            (last' = "RuntimeError" /\ runner' = runner)
       /\ (runner.currentSession # None /\ runner'.currentSession = None) =>
            /\ endRun
            /\ last' = "none"
            /\ runner'.sessionHistory = Append(runner.sessionHistory, observed')
       /\ runner'.sessionHistory # runner.sessionHistory =>
            (runner.currentSession # None /\ runner'.currentSession = None)
       /\ runner'.currentSession # None =>
            /\ runner'.currentSession[1].startTime # None
            /\ runner'.currentSession[1].endTime = None
            /\ \A i \in DOMAIN runner'.sessionHistory :
                 runner'.sessionHistory[i].session_id
                     # runner'.currentSession[1].sessionId]_vars

\* a run ended, a second one is in progress, and a call was turned down with
\* RuntimeError
C36_Witness ==
    /\ Len(runner.sessionHistory) = 1
    /\ runner.currentSession # None
    /\ runner.currentSession[1].metrics # <<>>
    /\ last = "RuntimeError"

\* C37: when an add_metric call overlaps a stop_run call of the same user,
\* the totals stop_run wrote stay: no step changes total_duration_seconds,
\* total_distance_km or total_calories of a session whose ended_at is set.
C37_EndedTotalsKept ==
    [][\A sid \in DOMAIN sessions :
          sessions[sid].ended_at # None =>
             /\ sessions'[sid].total_duration_seconds = sessions[sid].total_duration_seconds
             /\ sessions'[sid].total_distance_km = sessions[sid].total_distance_km
             /\ sessions'[sid].total_calories = sessions[sid].total_calories]_vars

\* C38: when two add_metric calls for the same active session overlap, once
\* both have completed the session's stored totals are the sums over its
\* measurements, in every interleaving of their steps.
C38_NoLostUpdate ==
    (\A p \in Procs : pc[p] = "idle") =>
        \A sid \in DOMAIN sessions :
            sessions[sid].ended_at = None =>
               /\ sessions[sid].total_distance_km = SumDistance(metrics, sid)
               /\ sessions[sid].total_duration_seconds = SumDuration(metrics, sid)
               /\ sessions[sid].total_calories =
                     SumDuration(metrics, sid) * sessions[sid].calories_per_hour

\* C39: create_session_from_import with a calories_total creates an already
\* ended session whose stored total_calories is that calories_total (the
\* duration-hours x calories_per_hour product only when calories_total is
\* absent), and whose distance and duration are the imported values after
\* the one measurement is appended.
C39_ImportKeepsCalories ==
    [][\A u \in Registered, in \in ImportInputs :
          create_session_from_import(u, 0, in) =>
             LET row == sessions'[Len(sessions')]
             IN  /\ row.user_id = u
                 /\ row.ended_at # None
                 /\ row.total_calories =
                       IF in.cal # None THEN in.cal[1]
                       ELSE in.dur * row.calories_per_hour
                 /\ row.total_distance_km = in.dist
                 /\ row.total_duration_seconds = in.dur]_vars

\* C40: after any sequence of strava_sync_runner calls, repeated and
\* overlapping ones included, at most one session has been created from any
\* one activity of any one user, and every imported session is created
\* already ended, so that the sessions there were, the importing user's
\* active one among them, are as they were.
C40_OneSessionPerActivity ==
    [][/\ \A i, j \in DOMAIN strava_notes' :
             (/\ strava_notes'[i].user_id = strava_notes'[j].user_id
              /\ strava_notes'[i].activity_id = strava_notes'[j].activity_id) => i = j
       /\ \A p \in Procs :
             sy_create(p) =>
                /\ sessions'[Len(sessions')].ended_at # None
                /\ \A sid \in DOMAIN sessions : sessions'[sid] = sessions[sid]]_vars

====
